---- MODULE Spec2Model ----
(***************************************************************************)
(* Model of nplab's message-bus instrument layer                           *)
(* (src/nplab/instrument/message_bus_instrument.py).                       *)
(*                                                                         *)
(* A Python string is a sequence of one-character strings; None is the     *)
(* one-element sequence <<"None">>, which no character sequence equals.    *)
(***************************************************************************)
EXTENDS Integers, Sequences, FiniteSets, TLC

VARIABLES pc, call, loc, log, inbuf, ret, termination_line, last_write, seen,
          threads, descriptors, instances, position

vars == <<pc, call, loc, log, inbuf, ret, termination_line, last_write, seen,
          threads, descriptors, instances, position>>

----------------------------------------------------------------------------
(* Bounds of the model *)

MaxLines == 3     \* lines in one multi-line device reply
MaxValueLen == 2  \* characters of a value written to a property
MaxNumLen == 3    \* characters of a number literal an instrument echoes
MaxAttempts == 3  \* failed VISA queries followed within one call

----------------------------------------------------------------------------
(* Python values *)

None == <<"None">>

NoTimeout == <<>>          \* timeout=None
SomeTimeout == <<2>>       \* a timeout of 2 seconds

RECURSIVE Concat(_)
Concat(ss) == IF ss = <<>> THEN <<>> ELSE Head(ss) \o Concat(Tail(ss))

SeqsUpTo(S, n) == UNION {[1..k -> S] : k \in 0..n}

\* Python's `sub in s` on strings
Contains(sub, s) ==
    \E i \in 0..(Len(s) - Len(sub)) : SubSeq(s, i + 1, i + Len(sub)) = sub

\* the characters str.strip() removes
Whitespace == {" ", "\t", "\n", "\r"}

RECURSIVE LStrip(_)
LStrip(s) == IF s # <<>> /\ Head(s) \in Whitespace THEN LStrip(Tail(s)) ELSE s

RECURSIVE RStrip(_)
RStrip(s) ==
    IF s # <<>> /\ s[Len(s)] \in Whitespace
    THEN RStrip(SubSeq(s, 1, Len(s) - 1)) ELSE s

\* str.strip() with no argument
Strip(s) == RStrip(LStrip(s))

----------------------------------------------------------------------------
(* Numbers: int(x), int(x, base), float(x) *)

DecDigits == {"0","1","2","3","4","5","6","7","8","9"}
OctDigits == {"0","1","2","3","4","5","6","7"}
HexDigits == DecDigits \cup {"a","b","c","d","e","f","A","B","C","D","E","F"}
SignChars == {"-","+"}

DigitOrder == <<"0","1","2","3","4","5","6","7","8","9">>
LowerHex == <<"a","b","c","d","e","f">>
UpperHex == <<"A","B","C","D","E","F">>

DigitVal(c) ==
    IF c \in DecDigits THEN (CHOOSE k \in 1..10 : DigitOrder[k] = c) - 1
    ELSE IF \E k \in 1..6 : LowerHex[k] = c
         THEN (CHOOSE k \in 1..6 : LowerHex[k] = c) + 9
         ELSE (CHOOSE k \in 1..6 : UpperHex[k] = c) + 9

DigitsOf(base) ==
    IF base = 8 THEN OctDigits ELSE IF base = 16 THEN HexDigits ELSE DecDigits

RECURSIVE NatVal(_, _)
NatVal(ds, base) ==
    IF ds = <<>> THEN 0
    ELSE NatVal(SubSeq(ds, 1, Len(ds) - 1), base) * base + DigitVal(ds[Len(ds)])

IntV(n) == <<"int", n>>
FloatV(m, e) == <<"float", m, e>>
StrV(s) == <<"str", s>>
ValueError == <<"ValueError">>
KeyError == <<"KeyError">>

AllIn(ds, S) == \A k \in 1..Len(ds) : ds[k] \in S

HasPrefix0x(s) == Len(s) >= 2 /\ s[1] = "0" /\ s[2] \in {"x", "X"}

\* Python 2 int(text, base) for base 0, 8, 10 or 16; base 0 detects the base
\* from the literal's prefix
PyInt(text, base) ==
    LET signed == text # <<>> /\ Head(text) \in SignChars
        neg == signed /\ Head(text) = "-"
        s == IF signed THEN Tail(text) ELSE text
        b == IF base # 0 THEN base
             ELSE IF HasPrefix0x(s) THEN 16
             ELSE IF Len(s) > 1 /\ s[1] = "0" THEN 8
             ELSE 10
        ds == IF b = 16 /\ HasPrefix0x(s) THEN SubSeq(s, 3, Len(s)) ELSE s
    IN  IF ds = <<>> \/ ~AllIn(ds, DigitsOf(b)) THEN ValueError
        ELSE IntV(IF neg THEN 0 - NatVal(ds, b) ELSE NatVal(ds, b))

\* first index of s holding a character of S, 0 when there is none
RECURSIVE IndexIn(_, _)
IndexIn(s, S) ==
    IF s = <<>> THEN 0
    ELSE IF Head(s) \in S THEN 1
    ELSE LET r == IndexIn(Tail(s), S) IN IF r = 0 THEN 0 ELSE r + 1

\* a float is mantissa * 10^exponent with the mantissa's trailing zeros removed
RECURSIVE Normalise(_, _)
Normalise(m, e) ==
    IF m = 0 THEN FloatV(0, 0)
    ELSE IF m % 10 = 0 THEN Normalise(m \div 10, e + 1)
    ELSE FloatV(m, e)

\* float(text) on a decimal literal
PyFloat(text) ==
    LET signed == text # <<>> /\ Head(text) \in SignChars
        neg == signed /\ Head(text) = "-"
        s == IF signed THEN Tail(text) ELSE text
        ei == IndexIn(s, {"e", "E"})
        mant == IF ei = 0 THEN s ELSE SubSeq(s, 1, ei - 1)
        ex == IF ei = 0 THEN <<"0">> ELSE SubSeq(s, ei + 1, Len(s))
        di == IndexIn(mant, {"."})
        ip == IF di = 0 THEN mant ELSE SubSeq(mant, 1, di - 1)
        fp == IF di = 0 THEN <<>> ELSE SubSeq(mant, di + 1, Len(mant))
        ev == PyInt(ex, 10)
    IN  IF ip \o fp = <<>> \/ ~AllIn(ip \o fp, DecDigits) \/ ev = ValueError
        THEN ValueError
        ELSE LET m == NatVal(ip \o fp, 10)
             IN  Normalise(IF neg THEN 0 - m ELSE m, ev[2] - Len(fp))

----------------------------------------------------------------------------
(* Regular expressions: the subset of `re` the placeholder table uses.     *)
(* A match is [e |-> end offset, caps |-> spans of the capture groups];    *)
(* Matches lists the matches at an offset in the engine's backtracking     *)
(* order, so its head is the match re finds.                               *)

Cls(S) == <<"cls", S>>
NotCls(S) == <<"ncls", S>>
Dot == <<"ncls", {"\n"}>>
SeqR(a, b) == <<"seq", a, b>>
Alt(a, b) == <<"alt", a, b>>
Opt(a) == <<"opt", a>>
Star(a) == <<"star", a>>
Plus(a) == <<"seq", a, <<"star", a>>>>
Grp(a) == <<"grp", a>>
Eps == <<"eps">>

RECURSIVE Rep(_, _)
Rep(a, n) == IF n = 0 THEN Eps ELSE SeqR(a, Rep(a, n - 1))

RECURSIVE Matches(_, _, _)
Matches(r, s, i) ==
    LET here == <<[e |-> i, caps |-> <<>>]>>
    IN
    CASE r[1] = "eps" -> here
      [] r[1] = "cls" ->
            IF i < Len(s) /\ s[i + 1] \in r[2]
            THEN <<[e |-> i + 1, caps |-> <<>>]>> ELSE <<>>
      [] r[1] = "ncls" ->
            IF i < Len(s) /\ s[i + 1] \notin r[2]
            THEN <<[e |-> i + 1, caps |-> <<>>]>> ELSE <<>>
      [] r[1] = "seq" ->
            LET xs == Matches(r[2], s, i)
            IN  Concat([k \in 1..Len(xs) |->
                    LET ys == Matches(r[3], s, xs[k].e)
                    IN  [j \in 1..Len(ys) |->
                            [e |-> ys[j].e, caps |-> xs[k].caps \o ys[j].caps]]])
      [] r[1] = "alt" -> Matches(r[2], s, i) \o Matches(r[3], s, i)
      [] r[1] = "opt" -> Matches(r[2], s, i) \o here
      [] r[1] = "star" ->
            LET xs == Matches(r[2], s, i)
            IN  Concat([k \in 1..Len(xs) |->
                    IF xs[k].e > i THEN Matches(r, s, xs[k].e) ELSE <<>>])
                \o here
      [] r[1] = "grp" ->
            LET xs == Matches(r[2], s, i)
            IN  [k \in 1..Len(xs) |->
                    [e |-> xs[k].e, caps |-> <<<<i, xs[k].e>>>> \o xs[k].caps]]

NoMatch == [found |-> FALSE, groups |-> <<>>]

\* re.search(r, s): the first match at the leftmost offset that has one;
\* groups are the captured substrings
RECURSIVE SearchFrom(_, _, _)
SearchFrom(r, s, i) ==
    IF i > Len(s) THEN NoMatch
    ELSE LET xs == Matches(r, s, i)
         IN  IF xs = <<>> THEN SearchFrom(r, s, i + 1)
             ELSE [found |-> TRUE,
                   groups |-> [k \in 1..Len(xs[1].caps) |->
                       SubSeq(s, xs[1].caps[k][1] + 1, xs[1].caps[k][2])]]

Search(r, s) == SearchFrom(r, s, 0)

----------------------------------------------------------------------------
(* The placeholder table of parsed_query, lines 125-135 *)

\* the kinds in the order of the table
placeholders == <<"c", "Nc", "d", "f", "i", "o", "s", "u", "x">>

\* the letters that end a placeholder of each kind
Letters(kind) ==
    CASE kind = "c" -> {"c"}
      [] kind = "Nc" -> {"c"}
      [] kind = "d" -> {"d"}
      [] kind = "f" -> {"e", "E", "f", "g"}
      [] kind = "i" -> {"i"}
      [] kind = "o" -> {"o"}
      [] kind = "s" -> {"s"}
      [] kind = "u" -> {"u"}
      [] kind = "x" -> {"x", "X"}

Ch(c) == <<"ch", c>>
Frag(kind, n) == <<"frag", kind, n>>
IsCh(w, i, S) == i <= Len(w) /\ w[i][1] = "ch" /\ w[i][2] \in S

\* number of digit characters of w from index i on
RECURSIVE DigitRun(_, _)
DigitRun(w, i) == IF IsCh(w, i, DecDigits) THEN 1 + DigitRun(w, i + 1) ELSE 0

\* length of the match of the kind's placeholder regex at index i of w, 0 if none:
\* %(\d+)c for "Nc", % and one letter for the others
PlaceholderLen(kind, w, i) ==
    IF ~IsCh(w, i, {"%"}) THEN 0
    ELSE IF kind = "Nc"
         THEN LET n == DigitRun(w, i + 1)
              IN  IF n > 0 /\ IsCh(w, i + 1 + n, {"c"}) THEN n + 2 ELSE 0
         ELSE IF IsCh(w, i + 1, Letters(kind)) THEN 2 ELSE 0

\* CountOf with the count left out: %Nc read as a placeholder of one character
CountOfOne(w, i, len) == 1

\* the N of a %Nc placeholder that starts at index i
CountOf(w, i, len) ==
    NatVal([k \in 1..(len - 2) |-> w[i + k][2]], 10)

\* re.sub(placeholder, '(' + regex + ')', w): every non-overlapping match, left
\* to right, becomes the kind's group
RECURSIVE SubFrom(_, _, _)
SubFrom(kind, w, i) ==
    IF i > Len(w) THEN <<>>
    ELSE LET len == PlaceholderLen(kind, w, i)
         IN  IF len = 0 THEN <<w[i]>> \o SubFrom(kind, w, i + 1)
             ELSE <<Frag(kind, IF kind = "Nc" THEN CountOf(w, i, len) ELSE 1)>>
                  \o SubFrom(kind, w, i + len)

Sub(kind, w) == SubFrom(kind, w, 1)

\* [(parse_fun, m.start()) for m in re.finditer(placeholder, response_string)]
RECURSIVE FindIterFrom(_, _, _)
FindIterFrom(kind, w, i) ==
    IF i > Len(w) THEN <<>>
    ELSE LET len == PlaceholderLen(kind, w, i)
         IN  IF len = 0 THEN FindIterFrom(kind, w, i + 1)
             ELSE <<<<kind, i - 1>>>> \o FindIterFrom(kind, w, i + len)

\* FindIter with re.search in the place of re.finditer: the first match alone
FindIterFirst(kind, w) ==
    LET ms == FindIterFrom(kind, w, 1)
    IN  IF ms = <<>> THEN <<>> ELSE <<ms[1]>>

FindIter(kind, w) == FindIterFrom(kind, w, 1)

Chars(t) == [k \in 1..Len(t) |-> Ch(t[k])]

\* the loop of lines 137-139 over the first n rows of the table
RECURSIVE CompileLoop(_, _)
CompileLoop(t, n) ==
    IF n = 0 THEN [response_regex |-> Chars(t), matched_placeholders |-> <<>>]
    ELSE LET prev == CompileLoop(t, n - 1)
             kind == placeholders[n]
         IN  [response_regex |-> Sub(kind, prev.response_regex),
              matched_placeholders |->
                  prev.matched_placeholders \o FindIter(kind, Chars(t))]

\* SortByOffset with the sort left out: the order the table found them in
Unsorted(ms) == ms

\* sorted(matched_placeholders, key=lambda m: m[1]): stable insertion by offset
RECURSIVE SortByOffset(_)
SortByOffset(ms) ==
    IF ms = <<>> THEN <<>>
    ELSE LET rest == SortByOffset(SubSeq(ms, 1, Len(ms) - 1))
             m == ms[Len(ms)]
             before == SelectSeq(rest, LAMBDA x : x[2] <= m[2])
             after == SelectSeq(rest, LAMBDA x : x[2] > m[2])
         IN  before \o <<m>> \o after

\* lines 136-141: the regex and the parse functions in the template's order
Compile(t) ==
    LET c == CompileLoop(t, Len(placeholders))
        sorted == SortByOffset(c.matched_placeholders)
    IN  [response_regex |-> c.response_regex,
         parse_function |-> [k \in 1..Len(sorted) |-> sorted[k][1]]]

\* the regex each kind is replaced by
FragRegex(kind, n) ==
    LET sign == Opt(Cls(SignChars))
        dec == Plus(Cls(DecDigits))
    IN
    CASE kind = "c" -> Dot
      [] kind = "Nc" -> Rep(Dot, n)
      [] kind = "d" -> SeqR(sign, dec)
      [] kind = "f" ->
            SeqR(sign,
              SeqR(Alt(SeqR(dec, Opt(SeqR(Cls({"."}), Star(Cls(DecDigits))))),
                       SeqR(Cls({"."}), dec)),
                   Opt(SeqR(Cls({"e", "E"}), SeqR(sign, dec)))))
      [] kind = "i" ->
            SeqR(sign,
              Alt(SeqR(Cls({"0"}), SeqR(Cls({"x", "X"}), Plus(Cls(HexDigits)))),
                  Alt(SeqR(Cls({"0"}), Star(Cls(OctDigits))), dec)))
      [] kind = "o" -> SeqR(sign, Plus(Cls(OctDigits)))
      [] kind = "s" -> Plus(NotCls(Whitespace))
      [] kind = "u" -> dec
      [] kind = "x" ->
            SeqR(sign, SeqR(Opt(SeqR(Cls({"0"}), Cls({"x", "X"}))),
                            Plus(Cls(HexDigits))))

\* a parser a caller supplies, {'ON': 1, 'OFF': 0}.__getitem__: a KeyError for
\* any other text
OnOff(text) ==
    IF text = <<"O","N">> THEN IntV(1)
    ELSE IF text = <<"O","F","F">> THEN IntV(0)
    ELSE KeyError

\* ParseFun with int(x) for every integer kind
ParseFunBase10(kind, text) ==
    CASE kind \in {"c", "Nc", "s"} -> StrV(text)
      [] kind \in {"d", "u", "i", "o", "x"} -> PyInt(text, 10)
      [] kind = "f" -> PyFloat(text)
      [] kind = "int" -> PyInt(text, 10)
      [] kind = "float" -> PyFloat(text)
      [] kind = "str" -> StrV(text)
      [] kind = "onoff" -> OnOff(text)

\* ParseFun with int(x, 0) for every integer kind
ParseFunAutoBase(kind, text) ==
    CASE kind \in {"c", "Nc", "s"} -> StrV(text)
      [] kind \in {"d", "u", "i", "o", "x"} -> PyInt(text, 0)
      [] kind = "f" -> PyFloat(text)
      [] kind = "int" -> PyInt(text, 10)
      [] kind = "float" -> PyFloat(text)
      [] kind = "str" -> StrV(text)
      [] kind = "onoff" -> OnOff(text)

\* the parse function of each kind of the table, and the functions a caller
\* supplies as parse_function: int, float, str and OnOff
ParseFun(kind, text) ==
    CASE kind \in {"c", "Nc", "s"} -> StrV(text)
      [] kind \in {"d", "u"} -> PyInt(text, 10)
      [] kind = "f" -> PyFloat(text)
      [] kind = "i" -> PyInt(text, 0)
      [] kind = "o" -> PyInt(text, 8)
      [] kind = "x" -> PyInt(text, 16)
      [] kind = "int" -> PyInt(text, 10)
      [] kind = "float" -> PyFloat(text)
      [] kind = "str" -> StrV(text)
      [] kind = "onoff" -> OnOff(text)

\* the compiled pattern, as re reads it: a substituted placeholder is a group;
\* of the template's own characters ( ) make a group, \d is a digit, . any
\* character but a newline, + * ? repeat what is before them, \ makes the next
\* character literal, and any other character matches itself
RECURSIVE ParseSeq(_, _)
RECURSIVE ParsePiece(_, _)

\* one atom and the repeat sign after it, from index i of w
ParsePiece(w, i) ==
    LET c == IF w[i][1] = "ch" THEN w[i][2] ELSE ""
        inner == ParseSeq(w, i + 1)
        atom ==
            IF w[i][1] = "frag"
            THEN [r |-> Grp(FragRegex(w[i][2], w[i][3])), i |-> i + 1]
            ELSE IF c = "(" THEN [r |-> Grp(inner.r), i |-> inner.i + 1]
            ELSE IF c = "\\" /\ i < Len(w)
            THEN [r |-> IF w[i + 1][2] = "d" THEN Cls(DecDigits)
                        ELSE Cls({w[i + 1][2]}),
                  i |-> i + 2]
            ELSE IF c = "." THEN [r |-> Dot, i |-> i + 1]
            ELSE [r |-> Cls({c}), i |-> i + 1]
        sign == IF IsCh(w, atom.i, {"+", "*", "?"}) THEN w[atom.i][2] ELSE ""
    IN  CASE sign = "+" -> [r |-> Plus(atom.r), i |-> atom.i + 1]
          [] sign = "*" -> [r |-> Star(atom.r), i |-> atom.i + 1]
          [] sign = "?" -> [r |-> Opt(atom.r), i |-> atom.i + 1]
          [] OTHER -> atom

\* the pieces from index i of w up to the end or to a closing parenthesis
ParseSeq(w, i) ==
    IF i > Len(w) \/ IsCh(w, i, {")"}) THEN [r |-> Eps, i |-> i]
    ELSE LET p == ParsePiece(w, i)
             rest == ParseSeq(w, p.i)
         IN  [r |-> SeqR(p.r, rest.r), i |-> rest.i]

ToRegex(w) == ParseSeq(w, 1).r

----------------------------------------------------------------------------
(* str.format and the % operator, as the property descriptors use them *)

RECURSIVE NatStr(_)
NatStr(n) ==
    IF n < 10 THEN <<DigitOrder[n + 1]>>
    ELSE NatStr(n \div 10) \o <<DigitOrder[(n % 10) + 1]>>

\* str(v) of a string or of an integer
PyStr(v) ==
    IF v[1] = "str" THEN v[2]
    ELSE IF v[2] < 0 THEN <<"-">> \o NatStr(0 - v[2]) ELSE NatStr(v[2])

FormatError == <<"FormatError">>

\* message.format(*args): {N} is replaced by str(args[N]), {{ and }} by a brace
RECURSIVE BraceFormat(_, _)
BraceFormat(m, args) ==
    IF m = <<>> THEN <<>>
    ELSE IF Len(m) >= 2 /\ m[1] = m[2] /\ m[1] \in {"{", "}"}
    THEN LET rest == BraceFormat(SubSeq(m, 3, Len(m)), args)
         IN  IF rest = FormatError THEN FormatError ELSE <<m[1]>> \o rest
    ELSE IF m[1] = "{"
    THEN LET n == DigitRun(Chars(m), 2)
             k == NatVal(SubSeq(m, 2, n + 1), 10)
         IN  IF n = 0 \/ Len(m) < n + 2 \/ m[n + 2] # "}" \/ k >= Len(args)
             THEN FormatError
             ELSE LET rest == BraceFormat(SubSeq(m, n + 3, Len(m)), args)
                  IN  IF rest = FormatError THEN FormatError
                      ELSE PyStr(args[k + 1]) \o rest
    ELSE IF m[1] = "}" THEN FormatError
    ELSE LET rest == BraceFormat(Tail(m), args)
         IN  IF rest = FormatError THEN FormatError ELSE <<m[1]>> \o rest

\* message % args: %s takes str() of the next argument, %d the next integer,
\* %% is a percent sign; every argument must be used
RECURSIVE PercentFormat(_, _)
PercentFormat(m, args) ==
    IF m = <<>> THEN (IF args = <<>> THEN <<>> ELSE FormatError)
    ELSE IF m[1] # "%"
    THEN LET rest == PercentFormat(Tail(m), args)
         IN  IF rest = FormatError THEN FormatError ELSE <<m[1]>> \o rest
    ELSE IF Len(m) < 2 THEN FormatError
    ELSE IF m[2] = "%"
    THEN LET rest == PercentFormat(SubSeq(m, 3, Len(m)), args)
         IN  IF rest = FormatError THEN FormatError ELSE <<"%">> \o rest
    ELSE IF m[2] \notin {"s", "d"} \/ args = <<>>
             \/ (m[2] = "d" /\ Head(args)[1] # "int")
    THEN FormatError
    ELSE LET rest == PercentFormat(SubSeq(m, 3, Len(m)), Tail(args))
         IN  IF rest = FormatError THEN FormatError
             ELSE PyStr(Head(args)) \o rest

\* FormatMessage with `if` for `elif`: the percent form is applied to the
\* result of the brace form
FormatBoth(m, args) ==
    LET b == IF Contains(<<"{", "0">>, m) THEN BraceFormat(m, args) ELSE m
    IN  IF b # FormatError /\ Contains(<<"%">>, b)
        THEN PercentFormat(b, args) ELSE b

\* lines 201-205 and 232-236, 246-250: the brace form if the template holds
\* '{0', else the percent form if it holds '%', else the template itself
FormatMessage(m, args) ==
    IF Contains(<<"{", "0">>, m) THEN BraceFormat(m, args)
    ELSE IF Contains(<<"%">>, m) THEN PercentFormat(m, args)
    ELSE m

----------------------------------------------------------------------------
(* Inputs: instruments, commands, lines the device sends *)

\* the instrument, and two channel objects whose parent it is
ChanObjs == {"ch3", "ch12"}

\* an object with a parent and no ch attribute, one with a ch and no parent
BadChanObjs == {"nochan", "orphan"}

\* two instances of one class, which share the descriptors of the class
SharedObjs == {"parent", "other"}

Insts == {"parent", "other", "echo", "visa"} \cup ChanObjs \cup BadChanObjs
ChOf(obj) == IF obj = "ch3" THEN 3 ELSE 12

\* the obj of an access made on the class: None, which has neither attribute
NoInstance == "None"

HasCh(obj) == obj \notin {"nochan", NoInstance}
HasParent(obj) == obj \notin {"orphan", NoInstance}

\* HasChannelAttrs with the parent attribute not looked at
HasChOnly(obj) == HasCh(obj)

\* hasattr(obj, 'ch') and hasattr(obj, 'parent'), lines 220 and 240
HasChannelAttrs(obj) == HasCh(obj) /\ HasParent(obj)

\* obj.parent with itself in its place
OwnTransport(obj) == obj

\* obj.parent of a channel object
ParentOf(obj) == "parent"

c_gx == <<"g","x">>
c_idn == <<"*","i","d","n","?">>
Commands == {c_gx, c_idn}

dummy == <<"d","u","m","m","y">>

l_foo == <<"f","o","o","\n">>
l_END == <<"E","N","D","\n">>
l_am  == <<"a","m","\n">>
l_pad == <<" ","a"," ","\r","\n">>
l_abc == <<"a","b","c","\n">>
l_12  == <<"1","2","\n">>
l_AB  == <<"A","1","2"," ","B","3",".","5","C","\n">>
l_fd  == <<"3",".","5","0"," ","-","7","\n">>

MLines == {l_foo, l_END, l_am}
SLines == {l_pad, l_abc, l_12, l_AB, l_fd}

TermLines == { <<"E","N","D">>, <<"m">> }

\* what the device sends after a write: one line, or up to MaxLines lines
DeviceReplies ==
    {<<l>> : l \in SLines} \cup SeqsUpTo(MLines, MaxLines)

\* the device answers a command when the host has read all it sent before
RepliesTo(buf) == IF buf = <<>> THEN DeviceReplies ELSE {<<>>}

Kwargs(m, t, to) == [multiline |-> m, termination_line |-> t, timeout |-> to]

\* the keyword arguments query is called with
QueryKwargs ==
    { Kwargs(FALSE, None, NoTimeout), Kwargs(FALSE, None, SomeTimeout),
      Kwargs(TRUE, None, SomeTimeout) }
    \cup { Kwargs(m, t, NoTimeout) : m \in BOOLEAN, t \in TermLines }

\* the keyword arguments parsed_query passes on to query
ParsedKwargs ==
    { Kwargs(FALSE, None, NoTimeout), Kwargs(FALSE, <<"E","N","D">>, NoTimeout) }

t_d  == <<"%","d">>
t_f  == <<"%","f">>
t_AB == <<"A","%","d"," ","B","%","f","C">>
t_fd == <<"%","f"," ","%","d">>
t_lit == <<"a","b">>

Templates == {t_d, t_f, t_AB, t_fd, t_lit}

\* property descriptors: queried_property(get_cmd, set_cmd, fvalidate, dtype),
\* fdel left at its default None
Prop(c, g, s, v, d) ==
    [channel |-> c, get_cmd |-> g, set_cmd |-> s, fvalidate |-> v, dtype |-> d,
     fdel |-> "None"]

p_x   == Prop(FALSE, c_gx, <<"s","x"," ","{","0","}">>, "None", "str")
p_pct == Prop(FALSE, c_idn, <<"s","x"," ","%","s">>, "validator", "str")
\* dtype='float' is the default of __init__
DefaultDtype == "float"

p_ro  == Prop(FALSE, c_gx, None, "validator", DefaultDtype)
p_wo  == Prop(FALSE, None, <<"s","x">>, "None", "int")
p_int == Prop(FALSE, c_gx, <<"s","{","0","}","%","s">>, "validator", "int")

p_G   == Prop(TRUE, <<"G","{","0","}","?">>, <<"S","{","0","}"," ","{","1","}">>,
              "validator", "str")
p_Gp  == Prop(TRUE, <<"G","%","d","?">>, <<"S","%","d"," ","%","s">>,
              "None", DefaultDtype)
p_Gi  == Prop(TRUE, c_gx, None, "validator", "int")
p_Gw  == Prop(TRUE, None, <<"S","{","0","}"," ","{","1","}">>, "None", "int")

\* queried_property(fdel=deleter)
p_del == [Prop(FALSE, None, None, "None", DefaultDtype) EXCEPT !.fdel = "deleter"]

Props == {p_x, p_pct, p_ro, p_wo, p_int, p_del}
ChanProps == {p_G, p_Gp, p_Gi, p_Gw}

\* values written to properties
ValueChars == {"y", "{", "%", "s"}
Values == SeqsUpTo(ValueChars, MaxValueLen)

----------------------------------------------------------------------------
(* State *)

LogEntry(i, o, a, r) == [inst |-> i, op |-> o, arg |-> a, res |-> r]

\* the result of a transport operation that raised
Raised == <<"raised">>

NoCall == [op |-> "none", obj |-> "parent", inst |-> "parent", via |-> "none",
           command |-> <<>>, multiline |-> FALSE, termination_line |-> None,
           timeout |-> NoTimeout, template |-> None, prop |-> None,
           value |-> None, parse_function |-> None]

NoLoc == [multiline |-> FALSE, termination_line |-> None,
          response |-> <<>>, last_line |-> <<>>, reply |-> None,
          response_regex |-> <<>>, parse_function |-> <<>>, groups |-> <<>>,
          message |-> None]

NoRet == [kind |-> "none", val |-> <<>>, msg |-> <<>>]

\* seen is a history variable: an earlier parsed_query call the caller kept,
\* its template and reply, the regex and parsers it built and how it ended
NoSeen == [template |-> None, reply |-> None, response_regex |-> <<>>,
           parse_function |-> <<>>, ret |-> NoRet, between |-> FALSE]

\* DummyStage.__init__: self._position = np.array([0,0,0])
Origin == <<0, 0, 0>>

\* the callers that share the instrument, and the state of one that has not
\* called yet
Threads == {1, 2}
NoThread == [pc |-> "idle", command |-> <<>>, ret |-> NoRet]
NoThreads == [t \in Threads |-> NoThread]

Return(v) == [kind |-> "return", val |-> v, msg |-> <<>>]
Raise(e, m) == [kind |-> "raise", val |-> <<e>>, msg |-> m]

Init ==
    /\ pc = "idle"
    /\ call = NoCall
    /\ loc = NoLoc
    /\ log = <<>>
    /\ inbuf = [i \in Insts |-> <<>>]
    /\ ret = NoRet
    /\ termination_line \in {None, <<"E","N","D">>}
    /\ last_write = <<>>
    /\ seen = NoSeen
    /\ threads = NoThreads
    /\ descriptors = Props \cup ChanProps
    /\ instances = {}
    /\ position = Origin

----------------------------------------------------------------------------
(* MessageBusInstrument.query *)

QueryCall(op, obj, inst, via, c, kw, t, prop) ==
    [op |-> op, obj |-> obj, inst |-> inst, via |-> via, command |-> c,
     multiline |-> kw.multiline, termination_line |-> kw.termination_line,
     timeout |-> kw.timeout, template |-> t, prop |-> prop, value |-> None,
     parse_function |-> None]

\* a caller invokes query(command, multiline, termination_line, timeout)
CallQuery ==
    /\ pc = "idle"
    /\ \E c \in Commands, kw \in QueryKwargs :
          call' = QueryCall("query", "parent", "parent", "query", c, kw,
                            None, None)
    /\ loc' = NoLoc
    /\ log' = <<>>
    /\ ret' = NoRet
    /\ pc' = "q_flush"
    /\ UNCHANGED <<inbuf, termination_line, last_write, seen,
              threads, descriptors,
              instances, position>>

\* FlushInputBuffer with the flush left out
FlushSkipped ==
    /\ pc = "q_flush"
    /\ pc' = "q_write"
    /\ UNCHANGED <<call, loc, log, inbuf, ret, termination_line, last_write, seen,
              threads, descriptors,
              instances, position>>

\* self.flush_input_buffer(): the base class's method is `pass`
FlushInputBuffer ==
    /\ pc = "q_flush"
    /\ log' = Append(log, LogEntry(call.inst, "flush", <<>>, <<>>))
    /\ pc' = "q_write"
    /\ UNCHANGED <<call, loc, inbuf, ret, termination_line, last_write, seen,
              threads, descriptors,
              instances, position>>

\* where query goes after the write: lines 78-83
AfterWrite(c) ==
    LET multiline == IF c.termination_line # None THEN TRUE ELSE c.multiline
    IN  IF multiline THEN "rm_enter" ELSE "q_readline"

\* self.write(queryString) succeeds; the device queues its reply
Write ==
    /\ pc = "q_write"
    /\ call.inst # "echo"
    /\ log' = Append(log, LogEntry(call.inst, "write", call.command, <<>>))
    /\ \E r \in RepliesTo(inbuf[call.inst]) :
          inbuf' = [inbuf EXCEPT ![call.inst] = @ \o r]
    /\ loc' = [loc EXCEPT !.multiline = (AfterWrite(call) = "rm_enter")]
    /\ pc' = AfterWrite(call)
    /\ UNCHANGED <<call, ret, termination_line, last_write, seen,
              threads, descriptors,
              instances, position>>

\* self.write(queryString) raises: the error leaves query and its callers
WriteFails ==
    /\ pc = "q_write"
    /\ call.inst # "echo"
    /\ log' = Append(log, LogEntry(call.inst, "write", call.command, Raised))
    /\ ret' = Raise("TransportError", <<>>)
    /\ pc' = "done"
    /\ UNCHANGED <<call, loc, inbuf, termination_line, last_write, seen,
              threads, descriptors,
              instances, position>>

\* what readline returns: the next buffered line, "" when none arrives
NextLine(buf) == IF buf = <<>> THEN <<>> ELSE Head(buf)
RestLines(buf) == IF buf = <<>> THEN <<>> ELSE Tail(buf)

\* query returns v: to the caller, or to parsed_query at line 145
QueryReturns(v) ==
    IF call.via = "query"
    THEN /\ ret' = Return(v)
         /\ pc' = "done"
         /\ loc' = loc
    ELSE /\ loc' = [loc EXCEPT !.reply = v]
         /\ pc' = "pq_search"
         /\ ret' = ret

\* line 83: the line readline returned, stripped
StripLine(line) == Strip(line)

\* return self.readline(timeout).strip()
ReadlineStrip ==
    /\ pc = "q_readline"
    /\ call.inst # "echo"
    /\ LET line == NextLine(inbuf[call.inst])
       IN  /\ log' = Append(log, LogEntry(call.inst, "readline",
                                          call.timeout, line))
           /\ QueryReturns(StripLine(line))
    /\ inbuf' = [inbuf EXCEPT ![call.inst] = RestLines(@)]
    /\ UNCHANGED <<call, termination_line, last_write, seen,
              threads, descriptors,
              instances, position>>

\* the loop condition of line 65
KeepReading(t, last_line) == ~Contains(t, last_line) /\ Len(last_line) > 0

\* ReadlineFails with one more try after the first failure
ReadlineRetried ==
    /\ call.inst # "echo"
    /\ \/ pc = "q_readline"
       \/ pc = "rm_loop" /\ KeepReading(loc.termination_line, loc.last_line)
    /\ log' = Append(log, LogEntry(call.inst, "readline",
                 IF pc = "rm_loop" THEN NoTimeout ELSE call.timeout, Raised))
    /\ IF \E i \in 1..Len(log) : log[i].res = Raised
       THEN ret' = Raise("TransportError", <<>>) /\ pc' = "done"
       ELSE ret' = ret /\ pc' = pc
    /\ UNCHANGED <<call, loc, inbuf, termination_line, last_write, seen,
              threads, descriptors,
              instances, position>>

\* self.readline raises: the error leaves query and its callers
ReadlineFails ==
    /\ call.inst # "echo"
    /\ \/ pc = "q_readline"
       \/ pc = "rm_loop" /\ KeepReading(loc.termination_line, loc.last_line)
    /\ log' = Append(log, LogEntry(call.inst, "readline",
                 IF pc = "rm_loop" THEN NoTimeout ELSE call.timeout, Raised))
    /\ ret' = Raise("TransportError", <<>>)
    /\ pc' = "done"
    /\ UNCHANGED <<call, loc, inbuf, termination_line, last_write, seen,
              threads, descriptors,
              instances, position>>

----------------------------------------------------------------------------
(* MessageBusInstrument.read_multiline *)

\* the value last_line has before the first read
Sentinel == dummy

\* ReadMultilineEnter with the line terminator as the termination line when
\* none is given
ReadMultilineEnterDefault ==
    /\ pc = "rm_enter"
    /\ LET t == IF call.termination_line # None THEN call.termination_line
                ELSE IF termination_line # None THEN termination_line
                ELSE <<"\n">>
       IN  /\ loc' = [loc EXCEPT !.termination_line = t,
                                  !.response = <<>>,
                                  !.last_line = Sentinel]
           /\ pc' = "rm_loop"
           /\ ret' = ret
    /\ UNCHANGED <<call, log, inbuf, termination_line, last_write, seen,
                   threads, descriptors,
              instances, position>>

\* lines 60-64: resolve the termination line, assert it is a string
ReadMultilineEnter ==
    /\ pc = "rm_enter"
    /\ LET t == IF call.termination_line = None
                THEN termination_line ELSE call.termination_line
       IN  IF t = None
           THEN /\ ret' = Raise("AssertionError", <<>>)
                /\ pc' = "done"
                /\ loc' = loc
           ELSE /\ loc' = [loc EXCEPT !.termination_line = t,
                                      !.response = <<>>,
                                      !.last_line = Sentinel]
                /\ pc' = "rm_loop"
                /\ ret' = ret
    /\ UNCHANGED <<call, log, inbuf, termination_line, last_write, seen,
              threads, descriptors,
              instances, position>>

\* one iteration of the while loop; query calls read_multiline(termination_line),
\* so readline gets read_multiline's default timeout, None
ReadMultilineStep ==
    /\ pc = "rm_loop"
    /\ call.inst # "echo"
    /\ KeepReading(loc.termination_line, loc.last_line)
    /\ LET line == NextLine(inbuf[call.inst])
       IN  /\ log' = Append(log, LogEntry(call.inst, "readline",
                                          NoTimeout, line))
           /\ loc' = [loc EXCEPT !.last_line = line,
                                  !.response = @ \o line]
    /\ inbuf' = [inbuf EXCEPT ![call.inst] = RestLines(@)]
    /\ UNCHANGED <<pc, call, ret, termination_line, last_write, seen,
              threads, descriptors,
              instances, position>>

\* the loop ends: return response
ReadMultilineReturn ==
    /\ pc = "rm_loop"
    /\ ~KeepReading(loc.termination_line, loc.last_line)
    /\ QueryReturns(loc.response)
    /\ UNCHANGED <<call, log, inbuf, termination_line, last_write, seen,
              threads, descriptors,
              instances, position>>

----------------------------------------------------------------------------
(* MessageBusInstrument.parsed_query, int_query, float_query *)

\* the parse_function argument: None, one callable, or a list of callables
Callable(f) == <<"callable", f>>
ParserSeq(fs) == <<"list", fs>>

\* ParserList with the supplied parsers added to the computed ones
ParserListMerged(computed, parse_function) ==
    IF parse_function = None THEN computed
    ELSE IF parse_function[1] = "callable" THEN computed \o <<parse_function[2]>>
    ELSE computed \o parse_function[2]

\* lines 140-143: the computed parsers if parse_function is None, else the
\* supplied ones, a single callable made a list of one
ParserList(computed, parse_function) ==
    IF parse_function = None THEN computed
    ELSE IF parse_function[1] = "callable" THEN <<parse_function[2]>>
    ELSE parse_function[2]

\* EnterParsedQuery with matched_placeholders kept from the call before
EnterParsedQueryShared(t, parse_function) ==
    LET c == Compile(t)
    IN  loc' = [NoLoc EXCEPT !.response_regex = c.response_regex,
                             !.parse_function =
                                 seen.parse_function
                                 \o ParserList(c.parse_function,
                                               parse_function)]

\* lines 123-143, up to the query of line 145
EnterParsedQuery(t, parse_function) ==
    LET c == Compile(t)
    IN  loc' = [NoLoc EXCEPT !.response_regex = c.response_regex,
                             !.parse_function =
                                 ParserList(c.parse_function, parse_function)]

\* a caller invokes parsed_query(query_string, response_string, **kwargs)
CallParsedQuery ==
    /\ pc = "idle"
    /\ \E c \in {c_gx}, t \in Templates, kw \in ParsedKwargs :
          /\ call' = QueryCall("parsed_query", "parent", "parent",
                               "parsed_query", c, kw, t, None)
          /\ EnterParsedQuery(t, None)
    /\ log' = <<>>
    /\ ret' = NoRet
    /\ pc' = "q_flush"
    /\ UNCHANGED <<inbuf, termination_line, last_write, seen,
              threads, descriptors,
              instances, position>>

\* NoMatchError with the message of parsed_query_old, line 97
NoMatchErrorOld(query_string, reply, response_string, response_regex) ==
    Raise("ValueError", <<query_string, reply, response_string>>)

\* the ValueError of line 148: command, reply, template, generated regex
NoMatchError(query_string, reply, response_string, response_regex) ==
    Raise("ValueError", <<query_string, reply, response_string, response_regex>>)

\* the ValueError of line 159
ParseFailure(query_string, reply) ==
    Raise("ValueError", <<query_string, reply>>)

\* lines 146-148: res = re.search(response_regex, reply)
ParsedQuerySearch ==
    /\ pc = "pq_search"
    /\ LET res == Search(ToRegex(loc.response_regex), loc.reply)
       IN  IF ~res.found
           THEN /\ ret' = NoMatchError(call.command, loc.reply, call.template,
                                       loc.response_regex)
                /\ pc' = "done"
                /\ loc' = loc
           ELSE /\ loc' = [loc EXCEPT !.groups = res.groups]
                /\ pc' = "pq_parse"
                /\ ret' = ret
    /\ UNCHANGED <<call, log, inbuf, termination_line, last_write, seen,
              threads, descriptors,
              instances, position>>

Min(a, b) == IF a < b THEN a ELSE b

\* [f(g) for f, g in zip(parse_function, res.groups())]
ApplyParsers(fs, gs) ==
    [k \in 1..Min(Len(fs), Len(gs)) |-> ParseFun(fs[k], gs[k])]

\* Unwrap without the single-value case
NoUnwrap(parsed_result) == [shape |-> "list", v |-> parsed_result]

\* lines 151-154: a single value is returned bare
Unwrap(parsed_result) ==
    IF Len(parsed_result) = 1
    THEN [shape |-> "scalar", v |-> parsed_result[1]]
    ELSE [shape |-> "list", v |-> parsed_result]

\* lines 149-159: the first parser that raises ends the list comprehension; a
\* ValueError is caught and replaced by the one of line 159, any other error
\* leaves parsed_query as it is
ParsedQueryParse ==
    /\ pc = "pq_parse"
    /\ LET parsed_result == ApplyParsers(loc.parse_function, loc.groups)
           raising == {k \in 1..Len(parsed_result) :
                          parsed_result[k] \in {ValueError, KeyError}}
           first == CHOOSE k \in raising : \A j \in raising : k <= j
       IN  IF raising = {} THEN ret' = Return(Unwrap(parsed_result))
           ELSE IF parsed_result[first] = ValueError
           THEN ret' = ParseFailure(call.command, loc.reply)
           ELSE ret' = Raise("KeyError", <<loc.groups[first]>>)
    /\ pc' = "done"
    /\ UNCHANGED <<call, loc, log, inbuf, termination_line, last_write, seen,
              threads, descriptors,
              instances, position>>

----------------------------------------------------------------------------
(* queried_property and queried_channel_property *)

\* Getter as the property factory of lines 168-170 chose it
GetterNoInt(dtype) == IF dtype = "float" THEN "float_query" ELSE "query"

\* lines 187-192 and 226-231: the method that reads a property of this dtype
Getter(dtype) ==
    IF dtype = "float" THEN "float_query"
    ELSE IF dtype = "int" THEN "int_query"
    ELSE "query"

\* the template int_query and float_query pass to parsed_query
TemplateOf(via) ==
    IF via = "float_query" THEN t_f ELSE IF via = "int_query" THEN t_d ELSE None

DefaultKwargs == Kwargs(FALSE, None, NoTimeout)

\* getter(message): enter query, or parsed_query through int_/float_query
EnterGetter(op, obj, inst, prop, message) ==
    LET via == Getter(prop.dtype)
    IN  /\ call' = QueryCall(op, obj, inst, via, message, DefaultKwargs,
                             TemplateOf(via), prop)
        /\ IF via = "query" THEN loc' = NoLoc
           ELSE EnterParsedQuery(TemplateOf(via), None)
        /\ ret' = NoRet
        /\ pc' = "q_flush"

\* the access raises before anything is sent
AccessRaises(op, obj, inst, prop, e) ==
    /\ call' = [NoCall EXCEPT !.op = op, !.obj = obj, !.inst = inst,
                              !.prop = prop]
    /\ loc' = NoLoc
    /\ ret' = Raise(e, <<>>)
    /\ pc' = "done"

\* PropertyGet without the test of get_cmd
PropertyGetUnchecked ==
    /\ pc = "idle"
    /\ \E prop \in Props :
          EnterGetter("get", "parent", "parent", prop, prop.get_cmd)
    /\ log' = <<>>
    /\ UNCHANGED <<inbuf, termination_line, last_write, seen,
              threads, descriptors,
              instances, position>>

\* the descriptors of the plain (FALSE) or of the channel (TRUE) properties
Declared(channel) == {d \in descriptors : d.channel = channel}

\* queried_property.__get__(obj)
PropertyGetOn(obj) ==
    /\ pc = "idle"
    /\ \E prop \in Declared(FALSE) :
          IF prop.get_cmd = None
          THEN AccessRaises("get", obj, obj, prop, "AttributeError")
          ELSE EnterGetter("get", obj, obj, prop, prop.get_cmd)
    /\ log' = <<>>
    /\ UNCHANGED <<inbuf, termination_line, last_write, seen,
              threads, descriptors,
              instances, position>>

PropertyGet == PropertyGetOn("parent")

\* __get__(None, objtype), an access on the class: lines 183-184, and lines
\* 220-223, where the assertion comes before the test of obj
ClassGet ==
    /\ pc = "idle"
    /\ \E prop \in descriptors :
          IF prop.channel /\ ~HasChannelAttrs(NoInstance)
          THEN AccessRaises("classget", NoInstance, NoInstance, prop,
                            "AssertionError")
          ELSE /\ call' = [NoCall EXCEPT !.op = "classget", !.obj = NoInstance,
                                         !.inst = NoInstance, !.prop = prop]
               /\ loc' = NoLoc
               /\ ret' = Return(prop)
               /\ pc' = "done"
    /\ log' = <<>>
    /\ UNCHANGED <<inbuf, termination_line, last_write, seen,
              threads, descriptors,
              instances, position>>

\* queried_property.__delete__(obj), which queried_channel_property inherits
PropertyDelete ==
    /\ pc = "idle"
    /\ \E prop \in descriptors :
       \E obj \in (IF prop.channel THEN ChanObjs ELSE SharedObjs) :
          IF prop.fdel = "None"
          THEN /\ AccessRaises("del", obj, obj, prop, "AttributeError")
               /\ log' = <<>>
          ELSE /\ call' = [NoCall EXCEPT !.op = "del", !.obj = obj,
                                         !.inst = obj, !.prop = prop]
               /\ log' = <<LogEntry(obj, "fdel", <<>>, <<>>)>>
               /\ loc' = NoLoc
               /\ ret' = Return(None)
               /\ pc' = "done"
    /\ UNCHANGED <<inbuf, termination_line, last_write, seen,
              threads, descriptors,
              instances, position>>

\* queried_channel_property.__get__(obj): the command is the get-template
\* formatted with obj.ch, the getter is the parent's
ChannelGet ==
    /\ pc = "idle"
    /\ \E prop \in Declared(TRUE), obj \in ChanObjs \cup BadChanObjs :
          IF ~HasChannelAttrs(obj)
          THEN AccessRaises("chget", obj, obj, prop, "AssertionError")
          ELSE IF prop.get_cmd = None
          THEN AccessRaises("chget", obj, ParentOf(obj), prop, "AttributeError")
          ELSE LET message == FormatMessage(prop.get_cmd, <<IntV(ChOf(obj))>>)
               IN  IF message = FormatError
                   THEN AccessRaises("chget", obj, ParentOf(obj), prop,
                                     "FormatError")
                   ELSE EnterGetter("chget", obj, ParentOf(obj), prop, message)
    /\ log' = <<>>
    /\ UNCHANGED <<inbuf, termination_line, last_write, seen,
              threads, descriptors,
              instances, position>>

\* SetArgs with the value before the channel index
SetArgsValueFirst(c) ==
    IF c.prop.channel THEN <<StrV(c.value), IntV(ChOf(c.obj))>>
    ELSE <<StrV(c.value)>>

\* the arguments the set-template is formatted with
SetArgs(c) ==
    IF c.prop.channel THEN <<IntV(ChOf(c.obj)), StrV(c.value)>>
    ELSE <<StrV(c.value)>>

\* lines 201-205, 246-250, then on to the write
FormatAndGo(c) ==
    LET message == FormatMessage(c.prop.set_cmd, SetArgs(c))
    IN  IF message = FormatError
        THEN /\ ret' = Raise("FormatError", <<>>)
             /\ pc' = "done"
             /\ loc' = NoLoc
        ELSE /\ loc' = [NoLoc EXCEPT !.message = message]
             /\ pc' = "p_write"
             /\ ret' = NoRet

\* SetEnter that never calls the validator
SetEnterUnvalidated(op, obj, prop, value) ==
    LET c == [NoCall EXCEPT !.op = op, !.obj = obj,
                            !.inst = IF prop.channel THEN ParentOf(obj) ELSE obj,
                            !.prop = prop, !.value = value]
    IN  /\ call' = c
        /\ IF prop.set_cmd = None
           THEN /\ ret' = Raise("AttributeError", <<>>)
                /\ pc' = "done"
                /\ loc' = NoLoc
           ELSE FormatAndGo(c)

\* SetEnter with the validator called before set_cmd is looked at
SetEnterValidatesFirst(op, obj, prop, value) ==
    LET c == [NoCall EXCEPT !.op = op, !.obj = obj,
                            !.inst = IF prop.channel THEN ParentOf(obj) ELSE obj,
                            !.prop = prop, !.value = value]
    IN  /\ call' = c
        /\ IF prop.fvalidate # "None"
           THEN /\ ret' = NoRet
                /\ pc' = "p_validate"
                /\ loc' = NoLoc
           ELSE IF prop.set_cmd = None
           THEN /\ ret' = Raise("AttributeError", <<>>)
                /\ pc' = "done"
                /\ loc' = NoLoc
           ELSE FormatAndGo(c)

\* __set__(obj, value) up to the validator's call or, with no validator, to
\* the write
SetEnter(op, obj, prop, value) ==
    LET c == [NoCall EXCEPT !.op = op, !.obj = obj,
                            !.inst = IF prop.channel THEN ParentOf(obj) ELSE obj,
                            !.prop = prop, !.value = value]
    IN  /\ call' = c
        /\ IF prop.set_cmd = None
           THEN /\ ret' = Raise("AttributeError", <<>>)
                /\ pc' = "done"
                /\ loc' = NoLoc
           ELSE IF prop.fvalidate # "None"
           THEN /\ ret' = NoRet
                /\ pc' = "p_validate"
                /\ loc' = NoLoc
           ELSE FormatAndGo(c)

\* queried_property.__set__(obj, value)
PropertySetOn(obj) ==
    /\ pc = "idle"
    /\ \E prop \in Declared(FALSE), value \in Values :
          SetEnter("set", obj, prop, value)
    /\ log' = <<>>
    /\ UNCHANGED <<inbuf, termination_line, last_write, seen,
              threads, descriptors,
              instances, position>>

PropertySet == PropertySetOn("parent")

SharedPropertySet == \E obj \in SharedObjs : PropertySetOn(obj)

\* queried_channel_property.__set__(obj, value)
ChannelSet ==
    /\ pc = "idle"
    /\ \E prop \in Declared(TRUE), obj \in ChanObjs \cup BadChanObjs,
          value \in Values :
          IF ~HasChannelAttrs(obj)
          THEN AccessRaises("chset", obj, obj, prop, "AssertionError")
          ELSE SetEnter("chset", obj, prop, value)
    /\ log' = <<>>
    /\ UNCHANGED <<inbuf, termination_line, last_write, seen,
              threads, descriptors,
              instances, position>>

\* self.fvalidate(obj, value) returns
ValidatorAccepts ==
    /\ pc = "p_validate"
    /\ log' = Append(log, LogEntry(call.obj, "validate", call.value, <<>>))
    /\ FormatAndGo(call)
    /\ UNCHANGED <<call, inbuf, termination_line, last_write, seen,
              threads, descriptors,
              instances, position>>

\* self.fvalidate(obj, value) raises
ValidatorRejects ==
    /\ pc = "p_validate"
    /\ log' = Append(log, LogEntry(call.obj, "validate", call.value, <<>>))
    /\ ret' = Raise("ValidationError", <<>>)
    /\ pc' = "done"
    /\ UNCHANGED <<call, loc, inbuf, termination_line, last_write, seen,
              threads, descriptors,
              instances, position>>

\* what the device sends after a set command: nothing, or one line
AckReplies(buf) == IF buf = <<>> THEN {<<>>, <<l_12>>} ELSE {<<>>}

\* PropertyWrite followed by a readline of the device's answer
PropertyWriteThenRead ==
    /\ pc = "p_write"
    /\ log' = log \o <<LogEntry(call.inst, "write", loc.message, <<>>),
                       LogEntry(call.inst, "readline", NoTimeout,
                                NextLine(inbuf[call.inst]))>>
    /\ inbuf' = [inbuf EXCEPT ![call.inst] = RestLines(@)]
    /\ ret' = Return(None)
    /\ pc' = "done"
    /\ UNCHANGED <<call, loc, termination_line, last_write, seen,
              threads, descriptors,
              instances, position>>

\* DescriptorAfter with the formatted command kept in the descriptor, as
\* `self.set_cmd = self.set_cmd.format(value)` would
DescriptorAfterStored(ds, prop, message) ==
    (ds \ {prop}) \cup {[prop EXCEPT !.set_cmd = message]}

\* lines 201-206, 246-250: the command is built in the local `message`; the
\* handlers assign no attribute of self
DescriptorAfter(ds, prop, message) == ds

\* obj.write(message), obj.parent.write(message)
PropertyWrite ==
    /\ pc = "p_write"
    /\ log' = Append(log, LogEntry(call.inst, "write", loc.message, <<>>))
    /\ \E r \in AckReplies(inbuf[call.inst]) :
          inbuf' = [inbuf EXCEPT ![call.inst] = @ \o r]
    /\ ret' = Return(None)
    /\ pc' = "done"
    /\ descriptors' = DescriptorAfter(descriptors, call.prop, loc.message)
    /\ UNCHANGED <<call, loc, termination_line, last_write, seen, threads,
                   instances, position>>

\* the write of the set command raises
PropertyWriteFails ==
    /\ pc = "p_write"
    /\ log' = Append(log, LogEntry(call.inst, "write", loc.message, Raised))
    /\ ret' = Raise("TransportError", <<>>)
    /\ pc' = "done"
    /\ UNCHANGED <<call, loc, inbuf, termination_line, last_write, seen,
              threads, descriptors,
              instances, position>>

----------------------------------------------------------------------------
(* VisaInstrument.query, visa_instrument.py lines 45-53 *)

\* what self.instr.query returns
VisaReplies == { <<"1","2">>, <<"a","b","c">> }

\* a caller invokes VisaInstrument.query(command): fail = True, the loop begins
CallVisaQuery ==
    /\ pc = "idle"
    /\ \E c \in Commands :
          call' = QueryCall("visa_query", "visa", "visa", "visa_query", c,
                            DefaultKwargs, None, None)
    /\ loc' = NoLoc
    /\ log' = <<>>
    /\ ret' = NoRet
    /\ pc' = "v_first"
    /\ UNCHANGED <<inbuf, termination_line, last_write, seen,
              threads, descriptors,
              instances, position>>

\* line 49: self.instr.query(*args, **kwargs), its result dropped
VisaFirstQuery ==
    /\ pc = "v_first"
    /\ \E r \in VisaReplies :
          log' = Append(log, LogEntry("visa", "instr.query", call.command, r))
    /\ pc' = "v_second"
    /\ UNCHANGED <<call, loc, inbuf, ret, termination_line, last_write, seen,
              threads, descriptors,
              instances, position>>

\* line 51: return self.instr.query(*args, **kwargs)
VisaSecondQuery ==
    /\ pc = "v_second"
    /\ \E r \in VisaReplies :
          /\ log' = Append(log, LogEntry("visa", "instr.query",
                                         call.command, r))
          /\ ret' = Return(r)
    /\ pc' = "done"
    /\ UNCHANGED <<call, loc, inbuf, termination_line, last_write, seen,
              threads, descriptors,
              instances, position>>

\* either instr.query raises: `except: print "fail"`, and the while loop, its
\* flag still True, starts again
VisaQueryFails ==
    /\ pc \in {"v_first", "v_second"}
    /\ Len(log) < MaxAttempts
    /\ log' = Append(log, LogEntry("visa", "instr.query", call.command,
                                   Raised))
    /\ pc' = "v_first"
    /\ UNCHANGED <<call, loc, inbuf, ret, termination_line, last_write, seen,
              threads, descriptors,
              instances, position>>

----------------------------------------------------------------------------
(* EchoInstrument: write keeps the message, readline returns it *)

\* the placeholder each kind is written as in a template
PlaceholderText(kind) ==
    CASE kind = "c" -> <<"%","c">>
      [] kind = "Nc" -> <<"%","2","c">>
      [] kind = "d" -> <<"%","d">>
      [] kind = "f" -> <<"%","f">>
      [] kind = "i" -> <<"%","i">>
      [] kind = "o" -> <<"%","o">>
      [] kind = "s" -> <<"%","s">>
      [] kind = "u" -> <<"%","u">>
      [] kind = "x" -> <<"%","X">>

Kinds == {placeholders[k] : k \in 1..Len(placeholders)}

\* templates of two placeholders and the messages of two tokens they meet
PairTemplates ==
    {PlaceholderText(a) \o <<" ">> \o PlaceholderText(b) : a, b \in Kinds}
Tokens == { <<"1","2">>, <<"3",".","5">>, <<"0","x","1","F">>, <<"a","b">> }
PairMessages == {x \o <<" ">> \o y : x, y \in Tokens}

\* templates of one integer placeholder and the number literals they meet
t_i == <<"%","i">>
t_o == <<"%","o">>
t_x == <<"%","x">>
t_X == <<"%","X">>
t_u == <<"%","u">>
IntTemplates == {t_i, t_d, t_o, t_x, t_X, t_u}
NumChars == {"0", "1", "7", "9", "x", "F", "-"}
NumMessages == SeqsUpTo(NumChars, MaxNumLen)

t_3cX == <<"%","3","c","X">>
t_12cX == <<"%","1","2","c","X">>

\* templates of one %Nc placeholder and literal text, and the messages they meet
NcTemplates ==
    {<<"%", n, "c">> \o lit : n \in {"1", "2", "3"}, lit \in {<<>>, <<"X">>}}
    \cup {t_12cX}
NcMessages ==
    { <<"a","b","c","X">>, <<"a","3","c","X">>, <<"a","b","X">>, <<"X">>,
      <<"a","b">>, <<"a","b","c","d","e","f","g","h","i","j","k","l","X">> }
m_AB == <<"A","1","2"," ","B","3",".","5","C">>
m_0x1F == <<"0","x","1","F">>

\* the (template, message) pairs parsed_query is called with on the echo
EchoPairs ==
    (PairTemplates \X PairMessages)
    \cup (IntTemplates \X NumMessages)
    \cup (NcTemplates \X NcMessages)
    \cup { <<t_AB, m_AB>>, <<t_fd, <<"3",".","5"," ","1","2">> >>,
           <<t_d, <<"a","b","c">> >>, <<t_3cX, <<"a","b","c","X">> >>,
           <<t_i, m_0x1F>>, <<t_i, <<"-","0","X","1","F">> >>,
           <<t_x, m_0x1F>>, <<t_X, <<"-","0","X","1","F">> >>,
           <<t_i, <<"+","0","1","7">> >>,
           <<t_lit, <<"a","b">> >>, <<t_lit, <<"a","b","c">> >> }

EchoInit ==
    /\ pc = "idle"
    /\ call = NoCall
    /\ loc = NoLoc
    /\ log = <<>>
    /\ inbuf = [i \in Insts |-> <<>>]
    /\ ret = NoRet
    /\ termination_line = None
    /\ last_write = <<>>
    /\ seen = NoSeen
    /\ threads = NoThreads
    /\ descriptors = Props \cup ChanProps
    /\ instances = {}
    /\ position = Origin

\* a caller invokes parsed_query(query_string, response_string) on the echo
EchoCallParsedQuery ==
    /\ pc = "idle"
    /\ \E tm \in EchoPairs :
          /\ call' = QueryCall("parsed_query", "echo", "echo", "parsed_query",
                               tm[2], DefaultKwargs, tm[1], None)
          /\ EnterParsedQuery(tm[1], None)
    /\ log' = <<>>
    /\ ret' = NoRet
    /\ pc' = "q_flush"
    /\ UNCHANGED <<inbuf, termination_line, last_write, seen,
              threads, descriptors,
              instances, position>>

\* templates, messages and parse_function arguments of the calls that supply
\* their parsers; t_groups is written as a regular expression
t_dd == <<"%","d"," ","%","d">>
t_ss == <<"%","s"," ","%","s">>
t_groups == <<"(","\\","d","+",")"," ","(","\\","d","+",")">>
ParserTemplates == {t_d, t_dd, t_ss, t_groups}
ParserMessages ==
    { <<"1","2"," ","3","4">>, <<"1","2"," ","a","b">>, <<"O","N"," ","O","F","F">>,
      <<"O","N"," ","1","2">>, <<"1","2">> }
ParserArgs ==
    { Callable("int"), Callable("str"), Callable("onoff"),
      ParserSeq(<<>>), ParserSeq(<<"int">>), ParserSeq(<<"int", "int">>),
      ParserSeq(<<"str", "float">>), ParserSeq(<<"onoff", "int">>),
      ParserSeq(<<"int", "int", "int">>) }

\* a caller invokes parsed_query(query_string, response_string,
\* parse_function=...) on the echo
EchoCallWithParsers ==
    /\ pc = "idle"
    /\ \E t \in ParserTemplates, m \in ParserMessages, pf \in ParserArgs :
          /\ call' = [QueryCall("parsed_query", "echo", "echo", "parsed_query",
                                m, DefaultKwargs, t, None)
                         EXCEPT !.parse_function = pf]
          /\ EnterParsedQuery(t, pf)
    /\ log' = <<>>
    /\ ret' = NoRet
    /\ pc' = "q_flush"
    /\ UNCHANGED <<inbuf, termination_line, last_write, seen,
              threads, descriptors,
              instances, position>>

\* EchoInstrument.write(msg)
EchoWrite ==
    /\ pc = "q_write"
    /\ call.inst = "echo"
    /\ log' = Append(log, LogEntry(call.inst, "write", call.command, <<>>))
    /\ last_write' = call.command
    /\ loc' = [loc EXCEPT !.multiline = (AfterWrite(call) = "rm_enter")]
    /\ pc' = AfterWrite(call)
    /\ UNCHANGED <<call, inbuf, ret, termination_line, seen,
              threads, descriptors,
              instances, position>>

\* return self.readline(timeout).strip() with EchoInstrument.readline
EchoReadlineStrip ==
    /\ pc = "q_readline"
    /\ call.inst = "echo"
    /\ log' = Append(log, LogEntry(call.inst, "readline", call.timeout,
                                   last_write))
    /\ QueryReturns(StripLine(last_write))
    /\ UNCHANGED <<call, inbuf, termination_line, last_write, seen,
              threads, descriptors,
              instances, position>>

\* the caller has its result or its exception and makes a new instrument:
\* EchoInstrument.__init__ sets _last_write to ""
EchoNewInstrument ==
    /\ pc = "done"
    /\ pc' = "idle"
    /\ call' = NoCall
    /\ loc' = NoLoc
    /\ log' = <<>>
    /\ ret' = NoRet
    /\ last_write' = <<>>
    /\ UNCHANGED <<inbuf, termination_line, seen,
              threads, descriptors,
              instances, position>>

\* the caller has its result or its exception and goes on to its next access
CallerContinues ==
    /\ pc = "done"
    /\ pc' = "idle"
    /\ call' = NoCall
    /\ loc' = NoLoc
    /\ log' = <<>>
    /\ ret' = NoRet
    /\ seen' = IF seen = NoSeen THEN seen ELSE [seen EXCEPT !.between = TRUE]
    /\ UNCHANGED <<inbuf, termination_line, last_write, threads, descriptors,
              instances, position>>

\* the caller keeps what its parsed_query call did with a single-line reply, to
\* compare a later call with it, and goes on
CallerKeeps ==
    /\ pc = "done"
    /\ call.via \in {"parsed_query", "int_query", "float_query"}
    /\ loc.reply # None
    /\ ~loc.multiline
    /\ seen' = [template |-> call.template, reply |-> loc.reply,
                response_regex |-> loc.response_regex,
                parse_function |-> loc.parse_function, ret |-> ret,
                between |-> FALSE]
    /\ pc' = "idle"
    /\ call' = NoCall
    /\ loc' = NoLoc
    /\ log' = <<>>
    /\ ret' = NoRet
    /\ UNCHANGED <<inbuf, termination_line, last_write, threads, descriptors,
              instances, position>>

----------------------------------------------------------------------------

Next ==
    \/ CallQuery
    \/ FlushInputBuffer
    \/ Write
    \/ WriteFails
    \/ ReadlineStrip
    \/ ReadlineFails
    \/ ReadMultilineEnter
    \/ ReadMultilineStep
    \/ ReadMultilineReturn
    \/ CallParsedQuery
    \/ ParsedQuerySearch
    \/ ParsedQueryParse
    \/ PropertyGet
    \/ ChannelGet
    \/ PropertySet
    \/ ChannelSet
    \/ ValidatorAccepts
    \/ ValidatorRejects
    \/ PropertyWrite
    \/ PropertyWriteFails
    \/ CallVisaQuery
    \/ VisaFirstQuery
    \/ VisaSecondQuery
    \/ VisaQueryFails
    \/ CallerContinues

Spec == Init /\ [][Next]_vars

\* parsed_query calls and property reads, with one parsed_query call kept for
\* comparison
TwiceNext ==
    \/ FlushInputBuffer
    \/ Write
    \/ WriteFails
    \/ ReadlineStrip
    \/ ReadlineFails
    \/ ReadMultilineEnter
    \/ ReadMultilineStep
    \/ ReadMultilineReturn
    \/ CallParsedQuery
    \/ ParsedQuerySearch
    \/ ParsedQueryParse
    \/ PropertyGet
    \/ CallerContinues
    \/ CallerKeeps

TwiceSpec == Init /\ [][TwiceNext]_vars

EchoNext ==
    \/ EchoCallParsedQuery
    \/ EchoCallWithParsers
    \/ FlushInputBuffer
    \/ EchoWrite
    \/ EchoReadlineStrip
    \/ ParsedQuerySearch
    \/ ParsedQueryParse
    \/ EchoNewInstrument

EchoSpec == EchoInit /\ [][EchoNext]_vars

\* the commands of the multi-line queries on the echo
EchoCommands ==
    { <<>>, <<"g","x">>, <<"E","N","D">>, <<"a"," ","E","N","D","\n">>,
      <<"a","m">> }

\* the most readline calls one read_multiline on the echo is followed for
MaxReads == 3

\* a caller invokes query(command, multiline, termination_line) on the echo
EchoCallQuery ==
    /\ pc = "idle"
    /\ \E c \in EchoCommands, kw \in QueryKwargs :
          call' = QueryCall("query", "echo", "echo", "query", c, kw, None, None)
    /\ loc' = NoLoc
    /\ log' = <<>>
    /\ ret' = NoRet
    /\ pc' = "q_flush"
    /\ UNCHANGED <<inbuf, termination_line, last_write, seen,
              threads, descriptors,
              instances, position>>

\* one iteration of the while loop with EchoInstrument.readline, which
\* returns the last message written at every call
EchoReadMultilineStep ==
    /\ pc = "rm_loop"
    /\ call.inst = "echo"
    /\ KeepReading(loc.termination_line, loc.last_line)
    /\ Len(log) < MaxReads + 2
    /\ log' = Append(log, LogEntry(call.inst, "readline", NoTimeout,
                                   last_write))
    /\ loc' = [loc EXCEPT !.last_line = last_write,
                           !.response = @ \o last_write]
    /\ UNCHANGED <<pc, call, inbuf, ret, termination_line, last_write, seen,
              threads, descriptors,
              instances, position>>

\* queries on a transport with a device behind it and on the echo
ReadNext ==
    \/ CallQuery
    \/ EchoCallQuery
    \/ FlushInputBuffer
    \/ Write
    \/ EchoWrite
    \/ ReadlineStrip
    \/ EchoReadlineStrip
    \/ ReadMultilineEnter
    \/ ReadMultilineStep
    \/ EchoReadMultilineStep
    \/ ReadMultilineReturn
    \/ CallerContinues

\* read_multiline is sequential code: while the loop can make its next readline
\* call it makes it, and when the loop condition fails it returns
ReadFairness ==
    /\ WF_vars(ReadMultilineStep)
    /\ WF_vars(EchoReadMultilineStep)
    /\ WF_vars(ReadMultilineReturn)

ReadSpec == Init /\ [][ReadNext]_vars /\ ReadFairness

----------------------------------------------------------------------------
(* query called by two threads on one instrument, lines 69-83: the methods
   take no lock, so the steps of the two calls interleave freely *)

\* the line the device sends in answer to a command
AnswerTo(c) == c \o <<"=","1","\n">>

ThreadEntry(t, o, a, r) ==
    [thread |-> t, inst |-> "parent", op |-> o, arg |-> a, res |-> r]

\* thread t calls query(command)
ThreadCallQuery(t) ==
    /\ threads[t].pc = "idle"
    /\ \E c \in Commands :
          threads' = [threads EXCEPT ![t] = [pc |-> "q_flush", command |-> c,
                                             ret |-> NoRet]]
    /\ UNCHANGED <<pc, call, loc, log, inbuf, ret, termination_line,
                   last_write, seen, descriptors,
              instances, position>>

\* line 76 in thread t
ThreadFlush(t) ==
    /\ threads[t].pc = "q_flush"
    /\ log' = Append(log, ThreadEntry(t, "flush", <<>>, <<>>))
    /\ threads' = [threads EXCEPT ![t].pc = "q_write"]
    /\ UNCHANGED <<pc, call, loc, inbuf, ret, termination_line, last_write,
                   seen, descriptors,
              instances, position>>

\* line 77 in thread t; the device queues its answer
ThreadWrite(t) ==
    /\ threads[t].pc = "q_write"
    /\ log' = Append(log, ThreadEntry(t, "write", threads[t].command, <<>>))
    /\ inbuf' = [inbuf EXCEPT !["parent"] =
                     Append(@, AnswerTo(threads[t].command))]
    /\ threads' = [threads EXCEPT ![t].pc = "q_readline"]
    /\ UNCHANGED <<pc, call, loc, ret, termination_line, last_write, seen,
                   descriptors,
              instances, position>>

\* ThreadReadline with a readline that leaves the line in the buffer
ThreadReadlinePeek(t) ==
    /\ threads[t].pc = "q_readline"
    /\ LET line == NextLine(inbuf["parent"])
       IN  /\ log' = Append(log, ThreadEntry(t, "readline", NoTimeout, line))
           /\ threads' = [threads EXCEPT ![t].pc = "done",
                                         ![t].ret = Return(StripLine(line))]
    /\ UNCHANGED <<pc, call, loc, inbuf, ret, termination_line, last_write,
                   seen, descriptors,
              instances, position>>

\* line 83 in thread t: the next line of the input buffer, whoever asked for it
ThreadReadline(t) ==
    /\ threads[t].pc = "q_readline"
    /\ LET line == NextLine(inbuf["parent"])
       IN  /\ log' = Append(log, ThreadEntry(t, "readline", NoTimeout, line))
           /\ threads' = [threads EXCEPT ![t].pc = "done",
                                         ![t].ret = Return(StripLine(line))]
    /\ inbuf' = [inbuf EXCEPT !["parent"] = RestLines(@)]
    /\ UNCHANGED <<pc, call, loc, ret, termination_line, last_write, seen,
                   descriptors,
              instances, position>>

ConcNext ==
    \/ \E t \in Threads : ThreadCallQuery(t)
    \/ \E t \in Threads : ThreadFlush(t)
    \/ \E t \in Threads : ThreadWrite(t)
    \/ \E t \in Threads : ThreadReadline(t)

ConcSpec == Init /\ [][ConcNext]_vars

\* writes and deletes of the properties of two instances of one class, reads
\* of the properties of the first and accesses to its channels
PropNext ==
    \/ PropertyGet
    \/ SharedPropertySet
    \/ PropertyDelete
    \/ ClassGet
    \/ ChannelGet
    \/ ChannelSet
    \/ ValidatorAccepts
    \/ ValidatorRejects
    \/ PropertyWrite
    \/ PropertyWriteFails
    \/ FlushInputBuffer
    \/ Write
    \/ WriteFails
    \/ ReadlineStrip
    \/ ReadlineFails
    \/ ParsedQuerySearch
    \/ ParsedQueryParse
    \/ CallerContinues

PropSpec == Init /\ [][PropNext]_vars

----------------------------------------------------------------------------
(* RefractiveIndexInfoDatabase.make_dict, make_data and
   test_converse_reversibility, utils/refractive_index_db.py lines 49-102 *)

\* s.split("/")
RECURSIVE SplitSlash(_)
SplitSlash(s) ==
    IF \A i \in 1..Len(s) : s[i] # "/" THEN <<s>>
    ELSE LET i == CHOOSE i \in 1..Len(s) :
                     s[i] = "/" /\ \A j \in 1..(i - 1) : s[j] # "/"
         IN  <<SubSeq(s, 1, i - 1)>> \o SplitSlash(SubSeq(s, i + 1, Len(s)))

\* "/".join(parts)
RECURSIVE JoinSlash(_)
JoinSlash(parts) ==
    IF parts = <<>> THEN <<>>
    ELSE IF Len(parts) = 1 THEN parts[1]
    ELSE parts[1] \o <<"/">> \o JoinSlash(Tail(parts))

\* a tree is a list of labels or a dict from keys to trees
PyList(xs) == <<"list", xs>>
PyDict(f) == <<"dict", f>>
PyLen(x) == IF x[1] = "list" THEN Len(x[2]) ELSE Cardinality(DOMAIN x[2])

\* the keys of a dict as a list: Python 2 gives them in hash order, the model in
\* one fixed order
RECURSIVE KeyList(_)
KeyList(S) ==
    IF S = {} THEN <<>>
    ELSE LET k == CHOOSE k \in S : TRUE IN <<k>> \o KeyList(S \ {k})

\* make_dict(data), lines 49-73
RECURSIVE make_dict(_)
make_dict(data) ==
    LET first(d) == SplitSlash(d)[1]
        value(d) == JoinSlash(Tail(SplitSlash(d)))
        keys == {first(data[i]) : i \in 1..Len(data)}
        values(k) ==
            LET under == SelectSeq(data, LAMBDA d :
                             first(d) = k /\ Len(value(d)) > 0)
            IN  [i \in 1..Len(under) |-> value(under[i])]
        outp == [k \in keys |-> make_dict(values(k))]
    IN  IF \A k \in keys : PyLen(outp[k]) = 0
        THEN PyList(KeyList(keys))
        ELSE PyDict(outp)

\* make_data(iterable), lines 75-91; the '' of line 80 is the empty sequence
RECURSIVE make_data(_)
make_data(iterable) ==
    IF iterable[1] = "list" THEN iterable[2]
    ELSE LET ks == KeyList(DOMAIN iterable[2])
             under(k) ==
                 LET values == make_data(iterable[2][k])
                 IN  IF Len(values) > 0
                     THEN [i \in 1..Len(values) |-> k \o <<"/">> \o values[i]]
                     ELSE <<k>>
         IN  Concat([i \in 1..Len(ks) |-> under(ks[i])])

\* the labels of the library: paths of up to MaxDepth names
MaxDepth == 3
MaxLabels == 3
Names == { <<"A">>, <<"B">> }
Labels == {JoinSlash(path) : path \in SeqsUpTo(Names, MaxDepth) \ {<<>>}}

\* test_converse_reversibility(data) is called
CallConverse ==
    /\ pc = "idle"
    /\ \E data \in SeqsUpTo(Labels, MaxLabels) :
          call' = [op |-> "test_converse_reversibility", data |-> data]
    /\ loc' = [iterable |-> None, data2 |-> None]
    /\ ret' = NoRet
    /\ pc' = "db_make_dict"
    /\ UNCHANGED <<log, inbuf, termination_line, last_write, seen,
                   threads, descriptors,
              instances, position>>

\* line 95
ConverseMakeDict ==
    /\ pc = "db_make_dict"
    /\ loc' = [loc EXCEPT !.iterable = make_dict(call.data)]
    /\ pc' = "db_make_data"
    /\ UNCHANGED <<call, log, inbuf, ret, termination_line, last_write, seen,
                   threads, descriptors,
              instances, position>>

\* line 96
ConverseMakeData ==
    /\ pc = "db_make_data"
    /\ loc' = [loc EXCEPT !.data2 = make_data(loc.iterable)]
    /\ pc' = "db_assert"
    /\ UNCHANGED <<call, log, inbuf, ret, termination_line, last_write, seen,
                   threads, descriptors,
              instances, position>>

\* the elements of a list
Elements(xs) == {xs[i] : i \in 1..Len(xs)}

\* lines 98-101: the two loops of assertions
ConverseAssert ==
    /\ pc = "db_assert"
    /\ ret' = IF /\ Elements(call.data) \subseteq Elements(loc.data2)
                 /\ Elements(loc.data2) \subseteq Elements(call.data)
              THEN Return(None)
              ELSE Raise("AssertionError", <<>>)
    /\ pc' = "done"
    /\ UNCHANGED <<call, loc, log, inbuf, termination_line, last_write, seen,
                   threads, descriptors,
              instances, position>>

DbNext ==
    \/ CallConverse
    \/ ConverseMakeDict
    \/ ConverseMakeData
    \/ ConverseAssert
    \/ CallerContinues

DbSpec == Init /\ [][DbNext]_vars

----------------------------------------------------------------------------
(* Instrument.__init__, get_instances and get_instance,
   instrument/__init__.py lines 25-57 *)

Classes == {"Instrument", "MessageBusInstrument", "EchoInstrument", "Stage",
            "DummyStage"}

\* the base class of each class
BaseOfClass(c) ==
    CASE c = "MessageBusInstrument" -> "Instrument"
      [] c = "EchoInstrument" -> "MessageBusInstrument"
      [] c = "Stage" -> "Instrument"
      [] c = "DummyStage" -> "Stage"

\* isinstance(i, cls) for an object i of class c
RECURSIVE IsInstance(_, _)
IsInstance(c, cls) ==
    IF c = cls THEN TRUE
    ELSE IF c = "Instrument" THEN FALSE
    ELSE IsInstance(BaseOfClass(c), cls)

\* the most instruments alive at a time
MaxInstances == 3

\* an object of class c; id stands for its identity
Object(id, c) == <<"object", id, c>>
IdOf(i) == i[2]
ClassOf(i) == i[3]
FreeIds == (1..MaxInstances) \ {IdOf(i) : i \in instances}
NewObject(c) == Object(CHOOSE id \in FreeIds : \A j \in FreeIds : id <= j, c)

\* get_instances without the isinstance filter
get_instancesAll(cls) == instances

\* get_instances(cls), line 39: the live instruments that are instances of cls
get_instances(cls) == {i \in instances : IsInstance(ClassOf(i), cls)}

\* cls() is called: every __init__ chains to Instrument.__init__, which adds
\* the object to the set of instances (line 28)
Construct ==
    /\ pc = "idle"
    /\ FreeIds # {}
    /\ \E cls \in Classes : instances' = instances \cup {NewObject(cls)}
    /\ UNCHANGED <<pc, call, loc, log, inbuf, ret, termination_line,
                   last_write, seen, threads, descriptors, position>>

\* the last reference to an instrument goes: the WeakSet drops it
Collect ==
    /\ pc = "idle"
    /\ \E i \in instances : instances' = instances \ {i}
    /\ UNCHANGED <<pc, call, loc, log, inbuf, ret, termination_line,
                   last_write, seen, threads, descriptors, position>>

\* cls.get_instance(create, exceptions), lines 47-57; instances[0] is the
\* first of a WeakSet's iteration, which may be any of them
GetInstance ==
    /\ pc = "idle"
    /\ \E cls \in Classes, create \in BOOLEAN, exceptions \in BOOLEAN :
          LET found == get_instances(cls)
          IN  /\ call' = [op |-> "get_instance", cls |-> cls,
                          create |-> create, exceptions |-> exceptions]
              /\ loc' = [instances |-> found]
              /\ IF found # {}
                 THEN /\ \E i \in found : ret' = Return(i)
                      /\ instances' = instances
                 ELSE IF create
                 THEN /\ FreeIds # {}
                      /\ ret' = Return(NewObject(cls))
                      /\ instances' = instances \cup {NewObject(cls)}
                 ELSE IF exceptions
                 THEN /\ ret' = Raise("IndexError", <<>>)
                      /\ instances' = instances
                 ELSE /\ ret' = Return(None)
                      /\ instances' = instances
    /\ pc' = "done"
    /\ UNCHANGED <<log, inbuf, termination_line, last_write, seen, threads,
                   descriptors, position>>

InstNext ==
    \/ Construct
    \/ Collect
    \/ GetInstance
    \/ CallerContinues

InstSpec == Init /\ [][InstNext]_vars

----------------------------------------------------------------------------
(* DummyStage, instrument/stage/__init__.py lines 221-238 *)

\* the largest coordinate of the stage
MaxCoord == 2

Coords == (0 - MaxCoord)..MaxCoord
Steps == {<<x, y, z>> : x \in {0 - 1, 0, 1}, y \in {0 - 1, 0, 1},
                         z \in {0 - 1, 0, 1}}
InRange(v) == \A k \in 1..3 : v[k] \in Coords

\* the sum of two arrays
Add(a, b) == <<a[1] + b[1], a[2] + b[2], a[3] + b[3]>>

\* the position after move(position, relative), lines 226-230
move(_position, p, relative) ==
    IF relative THEN p ELSE Add(_position, p)

\* stage.move(p, relative)
StageMove ==
    /\ pc = "idle"
    /\ \E p \in Steps, relative \in BOOLEAN :
          /\ InRange(move(position, p, relative))
          /\ call' = [op |-> "move", position |-> p, relative |-> relative]
          /\ position' = move(position, p, relative)
    /\ ret' = Return(None)
    /\ pc' = "done"
    /\ UNCHANGED <<loc, log, inbuf, termination_line, last_write, seen,
                   threads, descriptors, instances>>

\* stage.move_rel(p), lines 232-233: move with relative=True
StageMoveRel ==
    /\ pc = "idle"
    /\ \E p \in Steps :
          /\ InRange(move(position, p, TRUE))
          /\ call' = [op |-> "move_rel", position |-> p]
          /\ position' = move(position, p, TRUE)
    /\ ret' = Return(None)
    /\ pc' = "done"
    /\ UNCHANGED <<loc, log, inbuf, termination_line, last_write, seen,
                   threads, descriptors, instances>>

\* stage.get_position(), lines 234-238 with axis=None
StageGetPosition ==
    /\ pc = "idle"
    /\ call' = [op |-> "get_position"]
    /\ ret' = Return(position)
    /\ pc' = "done"
    /\ UNCHANGED <<loc, log, inbuf, termination_line, last_write, seen,
                   threads, descriptors, instances, position>>

StageNext ==
    \/ StageMove
    \/ StageMoveRel
    \/ StageGetPosition
    \/ CallerContinues

StageSpec == Init /\ [][StageNext]_vars

----------------------------------------------------------------------------
(* Properties of query *)

\* the call in progress runs MessageBusInstrument.query
RunsQuery == call.via \in {"query", "parsed_query", "int_query", "float_query"}

\* the lines the readline calls of this query returned, in order
LinesRead == [k \in 1..(Len(log) - 2) |-> log[k + 2].res]

\* C1: in every call of query the transport operations are flush_input_buffer,
\* then write(command), then readlines: the first operation and only the first
\* is the flush, the second and only the second is the write of the command,
\* every later one is a readline, and a query that returns has written.
C1_QueryOrder ==
    RunsQuery =>
        /\ \A i \in 1..Len(log) :
              /\ log[i].inst = call.inst
              /\ (log[i].op = "flush") <=> (i = 1)
              /\ (log[i].op = "write") <=> (i = 2)
              /\ (log[i].op = "readline") <=> (i >= 3)
        /\ Len(log) >= 2 => log[2].arg = call.command
        /\ ret.kind = "return" => Len(log) >= 2

\* a multi-line query returned after flush, write and three readlines
C1_Witness ==
    /\ pc = "done" /\ call.via = "query" /\ ret.kind = "return"
    /\ Len(log) = 5 /\ log[5].op = "readline"

\* a line ends a multi-line read if it holds the termination line or is empty
EndsRead(t, line) == Contains(t, line) \/ line = <<>>

\* C2: a query with multiline true or a termination line given returns the
\* concatenation of the lines up to and including the first line that contains
\* the termination line or is empty, and has made exactly that many readline
\* calls.
C2_ReadsUpToTerminationLine ==
    (pc = "done" /\ call.via = "query" /\ ret.kind = "return" /\ loc.multiline)
    => LET avail == LinesRead \o inbuf[call.inst] \o << <<>> >>
           p == CHOOSE k \in 1..Len(avail) :
                   /\ EndsRead(loc.termination_line, avail[k])
                   /\ \A j \in 1..(k - 1) :
                         ~EndsRead(loc.termination_line, avail[j])
       IN  /\ Len(LinesRead) = p
           /\ ret.val = Concat(SubSeq(avail, 1, p))

\* a line without its one trailing termination character
RemoveTerminator(s) ==
    IF s # <<>> /\ s[Len(s)] = "\n" THEN SubSeq(s, 1, Len(s) - 1) ELSE s

\* C3: a query with multiline false and no termination line makes exactly one
\* readline call and returns that line with only its trailing line terminator
\* removed.
C3_StripsOnlyLineTerminator ==
    (pc = "done" /\ call.via = "query" /\ ret.kind = "return" /\ ~loc.multiline)
    => /\ Len(LinesRead) = 1
       /\ ret.val = RemoveTerminator(LinesRead[1])

----------------------------------------------------------------------------
(* Properties of parsed_query *)

\* the call in progress runs parsed_query
RunsParsedQuery == call.via \in {"parsed_query", "int_query", "float_query"}

\* the kind of the placeholder that starts at index i of template t, "" if none
KindAt(t, i) ==
    IF t[i] # "%" \/ i = Len(t) THEN ""
    ELSE IF t[i + 1] \in DecDigits
    THEN LET n == DigitRun(Chars(t), i + 1)
         IN  IF i + 1 + n <= Len(t) /\ t[i + 1 + n] = "c" THEN "Nc" ELSE ""
    ELSE IF \E k \in Kinds \ {"Nc"} : t[i + 1] \in Letters(k)
    THEN CHOOSE k \in Kinds \ {"Nc"} : t[i + 1] \in Letters(k)
    ELSE ""

\* the kinds of the placeholders of template t, read from left to right
RECURSIVE KindsFrom(_, _)
KindsFrom(t, i) ==
    IF i > Len(t) THEN <<>>
    ELSE IF KindAt(t, i) = "" THEN KindsFrom(t, i + 1)
    ELSE <<KindAt(t, i)>> \o KindsFrom(t, i + 1)

TemplateKinds(t) == KindsFrom(t, 1)

\* the values a parsed_query returned, as a sequence
Returned == IF ret.val.shape = "scalar" THEN <<ret.val.v>> ELSE ret.val.v

\* C4: parsed_query returns the values in the left-to-right order of the
\* placeholders: the i-th value is the i-th captured group converted by the
\* parser of the i-th placeholder of the template, it fails in the parsers only
\* if one of these conversions fails, and 'A%d B%fC' on 'A12 B3.5C' gives 12
\* then 3.5.
C4_ValuesInTemplateOrder ==
    (/\ pc = "done" /\ RunsParsedQuery /\ Len(loc.groups) > 0
     /\ call.parse_function = None)
    => LET ks == TemplateKinds(call.template)
       IN  /\ Len(loc.groups) = Len(ks)
           /\ ret.kind = "return" =>
                 /\ Len(Returned) = Len(ks)
                 /\ \A i \in 1..Len(ks) :
                       Returned[i] = ParseFun(ks[i], loc.groups[i])
           /\ ret.kind = "raise" =>
                 \E i \in 1..Len(ks) : ParseFun(ks[i], loc.groups[i]) = ValueError
           /\ (call.template = t_AB /\ loc.reply = m_AB) =>
                 (ret.kind = "return"
                    /\ Returned = <<IntV(12), FloatV(35, 0 - 1)>>)

\* '%f %d' on '3.5 12' returned the float first
C4_Witness ==
    /\ pc = "done" /\ call.template = t_fd /\ ret.kind = "return"
    /\ ret.val.shape = "list"
    /\ ret.val.v = <<FloatV(35, 0 - 1), IntV(12)>>

\* C5: parsed_query returns a bare scalar when exactly one value results, as
\* for a template with exactly one placeholder, and the sequence of all values
\* when two or more result; it never returns a one-element sequence.
C5_SingleValueUnwrapped ==
    (pc = "done" /\ RunsParsedQuery /\ ret.kind = "return")
    => LET n == Min(Len(loc.parse_function), Len(loc.groups))
       IN  /\ n = 1 => (ret.val.shape = "scalar"
                          /\ ret.val.v = ParseFun(loc.parse_function[1],
                                                  loc.groups[1]))
           /\ n >= 2 => (ret.val.shape = "list" /\ Len(ret.val.v) = n)
           /\ (Len(TemplateKinds(call.template)) = 1
                 /\ call.parse_function = None) => ret.val.shape = "scalar"
           /\ ~(ret.val.shape = "list" /\ Len(ret.val.v) = 1)

\* '%d' returned the bare integer 12
C5_Witness ==
    /\ pc = "done" /\ call.via = "parsed_query" /\ call.template = t_d
    /\ ret.kind = "return" /\ ret.val = [shape |-> "scalar", v |-> IntV(12)]

\* the reply query returned, computed from the lines the transport delivered
ReplyRead ==
    IF loc.multiline THEN Concat(LinesRead) ELSE Strip(LinesRead[1])

\* C6: when the reply does not match the compiled pattern, parsed_query returns
\* no value and raises an error that carries the command, the reply, the
\* template and the compiled pattern, and the transport has seen the one write
\* and the reads of the query and nothing after them.
C6_MismatchRaises ==
    (/\ pc = "done" /\ RunsParsedQuery /\ loc.reply # None
     /\ ~Search(ToRegex(Compile(call.template).response_regex), loc.reply).found)
    => /\ ret.kind = "raise"
       /\ ret.val = <<"ValueError">>
       /\ ret.msg = <<call.command, loc.reply, call.template,
                      Compile(call.template).response_regex>>
       /\ Cardinality({i \in 1..Len(log) : log[i].op = "write"}) = 1
       /\ loc.reply = ReplyRead

\* '%d' met the reply 'abc'
C6_Witness ==
    /\ pc = "done" /\ call.via = "parsed_query" /\ call.template = t_d
    /\ loc.reply = <<"a","b","c">> /\ ret.kind = "raise"

----------------------------------------------------------------------------
(* Properties of the property descriptors *)

\* C7: in a property write with a validator, the validator is called with
\* (instance, value) before the command is formatted or sent, and when it
\* raises nothing is done on any transport.
C7_ValidatorFirst ==
    (call.op \in {"set", "chset"} /\ call.prop.set_cmd # None
       /\ call.prop.fvalidate # "None")
    => /\ (loc.message # None \/ log # <<>>) =>
             /\ log # <<>>
             /\ log[1] = LogEntry(call.obj, "validate", call.value, <<>>)
             /\ \A i \in 2..Len(log) : log[i].op # "validate"
       /\ ret.val = <<"ValidationError">> => Len(log) = 1
       /\ ret.kind = "return" => Len(log) = 2

\* a validator rejected the value of a channel property
C7_Witness ==
    /\ pc = "done" /\ call.op = "chset" /\ ret.val = <<"ValidationError">>
    /\ log = <<LogEntry(call.obj, "validate", call.value, <<>>)>>

\* template t with the first occurrence of field replaced by text
RECURSIVE ReplaceFirst(_, _, _)
ReplaceFirst(t, field, text) ==
    IF Len(t) < Len(field) THEN t
    ELSE IF SubSeq(t, 1, Len(field)) = field
    THEN text \o SubSeq(t, Len(field) + 1, Len(t))
    ELSE <<Head(t)>> \o ReplaceFirst(Tail(t), field, text)

\* C8: reading a channel property issues the get-template with the channel
\* index in the place of its field, through the parent's query method chosen by
\* the declared type, and nothing is done on the instance's own transport.
C8_ChannelGetThroughParent ==
    (call.op = "chget" /\ call.obj \in ChanObjs /\ call.prop.get_cmd # None)
    => LET ch == NatStr(ChOf(call.obj))
           cmd == ReplaceFirst(ReplaceFirst(call.prop.get_cmd,
                                            <<"{","0","}">>, ch),
                               <<"%","d">>, ch)
       IN  /\ call.command = cmd
           /\ call.via = (CASE call.prop.dtype = "float" -> "float_query"
                            [] call.prop.dtype = "int" -> "int_query"
                            [] OTHER -> "query")
           /\ call.template = (CASE call.prop.dtype = "float" -> t_f
                                 [] call.prop.dtype = "int" -> t_d
                                 [] OTHER -> None)
           /\ \A i \in 1..Len(log) :
                 /\ log[i].inst = "parent"
                 /\ log[i].op = "write" => log[i].arg = cmd
           /\ ret.kind = "return" => Len(log) >= 3

\* channel 3 with get-template 'G{0}?' issued 'G3?' on the parent
C8_Witness ==
    /\ pc = "done" /\ call.op = "chget" /\ call.obj = "ch3" /\ call.prop = p_G
    /\ ret.kind = "return"
    /\ log[2] = LogEntry("parent", "write", <<"G","3","?">>, <<>>)

\* C9: for every string value v, a write through the set-template 'sx {0}' and
\* a write through 'sx %s' both send the command 'sx ' followed by v.
C9_BraceAndPercentAgree ==
    (call.op = "set" /\ call.prop \in {p_x, p_pct})
    => /\ ret.kind = "raise" =>
             ret.val \in { <<"ValidationError">>, <<"TransportError">> }
       /\ \A i \in 1..Len(log) :
             log[i].op = "write" => log[i].arg = <<"s","x"," ">> \o call.value
       /\ loc.message \in {None, <<"s","x"," ">> \o call.value}
       /\ ret.kind = "return" =>
             log[Len(log)] = LogEntry("parent", "write",
                                      <<"s","x"," ">> \o call.value, <<>>)

\* 'sx %s' sent 'sx %s' for the value '%s'
C9_Witness ==
    /\ pc = "done" /\ call.op = "set" /\ call.prop = p_pct
    /\ call.value = <<"%","s">> /\ ret.kind = "return"
    /\ log[Len(log)].arg = <<"s","x"," ","%","s">>

----------------------------------------------------------------------------
(* Properties of the integer placeholders *)

\* an optionally signed literal: 0x or 0X and hex digits, or decimal digits
Unsigned(s) == IF s # <<>> /\ Head(s) \in SignChars THEN Tail(s) ELSE s

IsIntLiteral(s) ==
    LET u == Unsigned(s)
    IN  \/ HasPrefix0x(u) /\ Len(u) > 2 /\ AllIn(SubSeq(u, 3, Len(u)), HexDigits)
        \/ u # <<>> /\ AllIn(u, DecDigits)

\* the length of the longest prefix of s made of characters of S
RECURSIVE PrefixLen(_, _)
PrefixLen(s, S) ==
    IF s # <<>> /\ Head(s) \in S THEN 1 + PrefixLen(Tail(s), S) ELSE 0

\* the part of an integer literal that %i reads: all of it, but of a literal
\* with a leading 0 and no x only the octal digits before the first 8 or 9
PartRead(s) ==
    LET u == Unsigned(s)
    IN  IF ~HasPrefix0x(u) /\ u[1] = "0"
        THEN SubSeq(s, 1, (Len(s) - Len(u)) + PrefixLen(u, OctDigits))
        ELSE s

\* the value of a literal in the base its prefix tells
ValueByPrefix(s) ==
    LET u == Unsigned(s)
        n == IF HasPrefix0x(u) THEN NatVal(SubSeq(u, 3, Len(u)), 16)
             ELSE IF u[1] = "0" THEN NatVal(u, 8)
             ELSE NatVal(u, 10)
    IN  IntV(IF Head(s) = "-" THEN 0 - n ELSE n)

\* the call is parsed_query with template '%i' and the reply is a literal
ReadsIntLiteral ==
    /\ pc = "done" /\ call.via = "parsed_query" /\ call.template = t_i
    /\ loc.reply # None /\ IsIntLiteral(loc.reply)

\* C10 as claimed: for template '%i' and a reply that is an integer literal,
\* parsed_query reads the whole literal and leaves no digit of it unconsumed.
C10_WholeLiteralRead ==
    ReadsIntLiteral => (ret.kind = "return" /\ loc.groups = <<loc.reply>>)

\* C10 as amended: for template '%i' and a reply that is an integer literal,
\* parsed_query returns the value of the part read in the base the prefix
\* tells, 0x or 0X for 16, a leading 0 for 8, else 10; the part read is the
\* whole literal unless it has a leading 0 and a digit 8 or 9, which ends it.
C10_BaseFromPrefix ==
    ReadsIntLiteral
    => /\ ret.kind = "return"
       /\ loc.groups = <<PartRead(loc.reply)>>
       /\ ret.val = [shape |-> "scalar", v |-> ValueByPrefix(PartRead(loc.reply))]
       /\ loc.reply = m_0x1F => ret.val.v = IntV(31)
       /\ loc.reply = <<"0","1","7">> => ret.val.v = IntV(15)
       /\ loc.reply = <<"1","9">> => ret.val.v = IntV(19)

\* '%i' read '0x1F' as 31
C10_Witness ==
    /\ pc = "done" /\ call.template = t_i /\ loc.reply = m_0x1F
    /\ ret.kind = "return" /\ ret.val = [shape |-> "scalar", v |-> IntV(31)]

----------------------------------------------------------------------------
(* Properties of the placeholders with a fixed base *)

FixedBaseTemplates == {t_d, t_o, t_x, t_X, t_u}

\* the base the placeholder kind fixes
BaseOf(kind) ==
    CASE kind \in {"d", "u"} -> 10 [] kind = "o" -> 8 [] kind = "x" -> 16

\* the digits of a captured number: without its sign and, for %x, its 0x
DigitString(kind, g) ==
    LET u == IF kind = "u" THEN g ELSE Unsigned(g)
    IN  IF kind = "x" /\ HasPrefix0x(u) THEN SubSeq(u, 3, Len(u)) ELSE u

\* C11: for the templates '%d', '%o', '%x', '%X' and '%u', whenever the reply
\* holds a number the placeholder matches, parsed_query returns the value of
\* the captured digits in the base of the kind: 10 for %d and %u, 8 for %o,
\* 16 for %x and %X with or without 0x; a sign is read by all but %u, whose
\* result is never negative.
C11_FixedBase ==
    (/\ pc = "done" /\ call.via = "parsed_query" /\ call.parse_function = None
     /\ call.template \in FixedBaseTemplates /\ loc.groups # <<>>)
    => LET kind == TemplateKinds(call.template)[1]
           g == loc.groups[1]
           ds == DigitString(kind, g)
           n == NatVal(ds, BaseOf(kind))
       IN  /\ Len(loc.groups) = 1
           /\ Contains(g, loc.reply)
           /\ ds # <<>> /\ AllIn(ds, DigitsOf(BaseOf(kind)))
           /\ ret = Return([shape |-> "scalar",
                            v |-> IntV(IF Head(g) = "-" THEN 0 - n ELSE n)])
           /\ kind = "u" => (Head(g) \notin SignChars /\ ret.val.v[2] >= 0)
           /\ (call.template = t_d /\ loc.reply = <<"0","1","7">>) =>
                 ret.val.v = IntV(17)
           /\ (call.template = t_u /\ loc.reply = <<"-","1","7">>) =>
                 ret.val.v = IntV(17)
           /\ (call.template \in {t_x, t_X} /\ loc.reply = <<"1","F">>) =>
                 ret.val.v = IntV(31)

\* '%X' read '-0X1F' in base 16
C11_Witness ==
    /\ pc = "done" /\ ret.kind = "return"
    /\ call.template = t_X /\ loc.reply = <<"-","0","X","1","F">>
    /\ ret.val.v = IntV(0 - 31)

----------------------------------------------------------------------------
(* Properties of the %Nc placeholder *)

\* the N and the literal text of a template '%Nc' + text
NcCount(t) == NatVal(SubSeq(t, 2, 1 + DigitRun(Chars(t), 2)), 10)
NcText(t) == SubSeq(t, 3 + DigitRun(Chars(t), 2), Len(t))

\* the offsets of reply at which text follows n characters
NcEnds(n, text, reply) ==
    {i \in n..(Len(reply) - Len(text)) :
        SubSeq(reply, i + 1, i + Len(text)) = text}

\* C12: a template made of one '%Nc' and literal text compiles to one group of
\* exactly N characters followed by the text, with exactly one parser; it
\* matches a reply exactly where N characters are followed by the text and
\* returns the leftmost such N characters as one string: '%3cX' on 'abcX'
\* gives 'abc', and is never read as '%c' followed by '3cX'.
C12_NcOneGroup ==
    (RunsParsedQuery /\ call.template \in NcTemplates)
    => LET n == NcCount(call.template)
           text == NcText(call.template)
       IN  /\ loc.response_regex = <<Frag("Nc", n)>> \o Chars(text)
           /\ loc.parse_function = <<"Nc">>
           /\ pc = "done" =>
                 LET ends == NcEnds(n, text, loc.reply)
                 IN  IF ends = {}
                     THEN ret.kind = "raise" /\ loc.groups = <<>>
                     ELSE LET i == CHOOSE i \in ends : \A j \in ends : i <= j
                              g == SubSeq(loc.reply, i - n + 1, i)
                          IN  /\ loc.groups = <<g>>
                              /\ ret = Return([shape |-> "scalar",
                                               v |-> StrV(g)])
           /\ (pc = "done" /\ call.template = t_3cX) =>
                 /\ loc.reply = <<"a","b","c","X">> =>
                       ret.val.v = StrV(<<"a","b","c">>)
                 /\ loc.reply = <<"a","3","c","X">> =>
                       ret.val.v = StrV(<<"a","3","c">>)

\* '%3cX' read 'abc' from 'abcX'
C12_Witness ==
    /\ pc = "done" /\ call.template = t_3cX /\ ret.kind = "return"
    /\ loc.groups = << <<"a","b","c">> >>
    /\ ret.val = [shape |-> "scalar", v |-> StrV(<<"a","b","c">>)]

----------------------------------------------------------------------------
(* Compiling keeps no state *)

----------------------------------------------------------------------------
(* Failures of the transport *)

\* C14: in every call that runs MessageBusInstrument.query, a write or a
\* readline that raises is the last transport operation of the call, the call
\* ends with that error reaching the caller, and the command is written at most
\* once: no readline follows a failed write, none follows a failed readline.
C14_FailurePropagates ==
    RunsQuery =>
        /\ \A i \in 1..Len(log) :
              log[i].res = Raised =>
                  /\ i = Len(log)
                  /\ pc = "done"
                  /\ ret = Raise("TransportError", <<>>)
        /\ Cardinality({i \in 1..Len(log) : log[i].op = "write"}) <= 1
        /\ (ret.kind = "raise" /\ ret.val = <<"TransportError">>) =>
              (log # <<>> /\ log[Len(log)].res = Raised)

\* the second readline of a multi-line query raised
C14_Witness ==
    /\ pc = "done" /\ call.via = "query" /\ ret = Raise("TransportError", <<>>)
    /\ Len(log) = 4 /\ log[3].op = "readline" /\ log[3].res # Raised
    /\ log[4].op = "readline" /\ log[4].res = Raised

\* C15: in every call of VisaInstrument.query, a VISA query that raises is the
\* last operation of the call and the call ends with the error reaching the
\* caller: the command is not sent again after a failure.
C15_VisaFailurePropagates ==
    call.via = "visa_query" =>
        \A i \in 1..Len(log) :
            log[i].res = Raised =>
                (i = Len(log) /\ pc = "done" /\ ret.kind = "raise")

----------------------------------------------------------------------------
(* Properties of the descriptors: templates that are missing, reads, writes *)

\* C16: reading a property that has no get-template, on an instance that has
\* the attributes its descriptor needs, fails at once with AttributeError:
\* no command is issued and no flush, write or readline is done.
C16_NoGetTemplate ==
    (/\ call.op \in {"get", "chget"} /\ call.obj \notin BadChanObjs
     /\ call.prop.get_cmd = None)
    => /\ pc = "done"
       /\ ret = Raise("AttributeError", <<>>)
       /\ log = <<>>
       /\ call.command = <<>>

\* a channel property without get-template was read on channel 3
C16_Witness ==
    /\ pc = "done" /\ call.op = "chget" /\ call.obj = "ch3"
    /\ call.prop = p_Gw /\ ret = Raise("AttributeError", <<>>) /\ log = <<>>

\* C17: writing a property that has no set-template, on an instance that has
\* the attributes its descriptor needs, fails at once with AttributeError:
\* the validator is not called, no message is formatted and nothing is
\* written.
C17_NoSetTemplate ==
    (/\ call.op \in {"set", "chset"} /\ call.obj \notin BadChanObjs
     /\ call.prop.set_cmd = None)
    => /\ pc = "done"
       /\ ret = Raise("AttributeError", <<>>)
       /\ log = <<>>
       /\ loc.message = None

\* a property with a validator and no set-template was written
C17_Witness ==
    /\ pc = "done" /\ call.op = "set" /\ call.prop = p_ro
    /\ call.prop.fvalidate = "validator" /\ call.value = <<"y">>
    /\ ret = Raise("AttributeError", <<>>) /\ log = <<>>

\* C18: reading a property that has a get-template issues that template as
\* the command, through float_query ('%f') when the declared type is 'float',
\* which is the default, through int_query ('%d') when it is 'int', through
\* the raw query otherwise, and returns what that call returns: the stripped
\* line, or the one number parsed from it.
C18_GetterByType ==
    (call.op = "get" /\ call.prop.get_cmd # None)
    => LET dtype == call.prop.dtype
           kind == IF dtype = "float" THEN "f" ELSE "d"
       IN  /\ call.command = call.prop.get_cmd
           /\ call.via = (CASE dtype = "float" -> "float_query"
                            [] dtype = "int" -> "int_query"
                            [] OTHER -> "query")
           /\ call.template = (CASE dtype = "float" -> t_f
                                 [] dtype = "int" -> t_d
                                 [] OTHER -> None)
           /\ call.prop = p_ro => call.via = "float_query"
           /\ \A i \in 1..Len(log) :
                 /\ log[i].inst = "parent"
                 /\ log[i].op = "write" => log[i].arg = call.prop.get_cmd
           /\ (pc = "done" /\ ret.kind = "return") =>
                 IF dtype \in {"float", "int"}
                 THEN /\ loc.reply = Strip(LinesRead[1])
                      /\ loc.parse_function = <<kind>>
                      /\ ret.val = [shape |-> "scalar",
                                    v |-> ParseFun(kind, loc.groups[1])]
                 ELSE ret.val = Strip(LinesRead[1])

\* an 'int' property was read as 12 through int_query
C18_Witness ==
    /\ pc = "done" /\ call.op = "get" /\ call.prop = p_int
    /\ call.via = "int_query" /\ log[2].arg = c_gx
    /\ ret = Return([shape |-> "scalar", v |-> IntV(12)])

\* the transport operations of the call: the log without the validator's calls
TransportLog == SelectSeq(log, LAMBDA e : e.op # "validate")

\* C19: a property write that succeeds has done exactly one transport
\* operation, the write of the formatted command on the instrument (the parent
\* for a channel property): no flush_input_buffer and no readline.
C19_WriteOnly ==
    (call.op \in {"set", "chset"} /\ pc = "done" /\ ret.kind = "return")
    => /\ TransportLog =
             <<LogEntry(IF call.prop.channel THEN "parent" ELSE call.obj,
                        "write",
                        FormatMessage(call.prop.set_cmd, SetArgs(call)),
                        <<>>)>>
       /\ (call.prop = p_G /\ call.obj = "ch3" /\ call.value = <<"y">>) =>
             TransportLog[1].arg = <<"S","3"," ","y">>
       /\ (call.prop = p_x /\ call.value = <<"y">>) =>
             TransportLog[1].arg = <<"s","x"," ","y">>

\* channel 3 was set to 'y' by the one write 'S3 y' on the parent
C19_Witness ==
    /\ pc = "done" /\ call.op = "chset" /\ call.prop = p_G
    /\ call.obj = "ch3" /\ ret.kind = "return"
    /\ TransportLog = <<LogEntry("parent", "write", <<"S","3"," ","y">>, <<>>)>>

\* C20: reading or writing a channel property on an instance without the ch
\* attribute or without the parent attribute fails at once with the
\* AssertionError of the precondition: the validator is not called, no command
\* is formatted, nothing is done on any transport, and the access never ends
\* without an error.
C20_ChannelPrecondition ==
    (call.op \in {"chget", "chset"} /\ call.obj \in BadChanObjs)
    => /\ pc = "done"
       /\ ret = Raise("AssertionError", <<>>)
       /\ log = <<>>
       /\ loc.message = None
       /\ call.command = <<>>

\* a channel property with a validator was written on an object with no parent
C20_Witness ==
    /\ pc = "done" /\ call.op = "chset" /\ call.obj = "orphan"
    /\ call.prop = p_G /\ ret = Raise("AssertionError", <<>>) /\ log = <<>>

\* C21: writing a channel property sends, through the parent's write and at
\* most once, the set-template with the channel index in the place of its
\* first field and the value in the place of its second; a write that succeeds
\* has sent it exactly once, and nothing is done on the instance itself.
C21_ChannelSetThroughParent ==
    (call.op = "chset" /\ call.obj \in ChanObjs /\ call.prop.set_cmd # None)
    => LET ch == NatStr(ChOf(call.obj))
           withCh == ReplaceFirst(ReplaceFirst(call.prop.set_cmd,
                                               <<"{","0","}">>, ch),
                                  <<"%","d">>, ch)
           cmd == IF Contains(<<"{","1","}">>, withCh)
                  THEN ReplaceFirst(withCh, <<"{","1","}">>, call.value)
                  ELSE ReplaceFirst(withCh, <<"%","s">>, call.value)
           writes == {i \in 1..Len(log) : log[i].op = "write"}
       IN  /\ \A i \in 1..Len(log) :
                 /\ log[i].op # "validate" => log[i].inst = "parent"
                 /\ log[i].op = "write" => log[i].arg = cmd
           /\ Cardinality(writes) <= 1
           /\ ret.kind = "return" => Cardinality(writes) = 1
           /\ loc.message \in {None, cmd}

\* channel 12 was set to '%s' through 'S%d %s' by the write 'S12 %s'
C21_Witness ==
    /\ pc = "done" /\ call.op = "chset" /\ call.obj = "ch12"
    /\ call.prop = p_Gp /\ call.value = <<"%","s">> /\ ret.kind = "return"
    /\ log = <<LogEntry("parent", "write",
                        <<"S","1","2"," ","%","s">>, <<>>)>>

\* a template that holds a brace-style field and a %-style placeholder
MixedStyles(t) ==
    t # None /\ Contains(<<"{","0">>, t) /\ Contains(<<"%">>, t)

\* the template an access formats: the set-template of a write, the
\* get-template of a channel read
AccessTemplate ==
    IF call.op = "chget" THEN call.prop.get_cmd ELSE call.prop.set_cmd

\* C22: an access that formats a template holding both a brace-style field
\* and a %-style placeholder fails with an error: no command is formatted from
\* the template and none is sent.
C22_MixedStylesRejected ==
    (/\ call.op \in {"set", "chset", "chget"} /\ call.obj \notin BadChanObjs
     /\ MixedStyles(AccessTemplate))
    => /\ loc.message = None
       /\ \A i \in 1..Len(log) : log[i].op # "write"
       /\ pc = "done" => ret.kind = "raise"

\* the parsers line 150 applied, and the first of them that raised (0 if none)
Applied == ApplyParsers(loc.parse_function, loc.groups)
FirstRaising ==
    LET raising == {k \in 1..Len(Applied) : Applied[k] \in {ValueError, KeyError}}
    IN  IF raising = {} THEN 0
        ELSE CHOOSE k \in raising : \A j \in raising : k <= j

\* C23: when a parser raises an error on a captured group, parsed_query fails
\* with a parse error whose arguments include the command, the raw reply, the
\* text of the offending group and the parser that failed.
C23_ParseErrorDetail ==
    (pc = "done" /\ RunsParsedQuery /\ FirstRaising # 0)
    => /\ ret.kind = "raise"
       /\ ret.val = <<"ValueError">>
       /\ \E a, b, c, d \in 1..Len(ret.msg) :
             /\ ret.msg[a] = call.command
             /\ ret.msg[b] = loc.reply
             /\ ret.msg[c] = loc.groups[FirstRaising]
             /\ ret.msg[d] = <<"parser", loc.parse_function[FirstRaising]>>

\* the parsers the caller supplied, as a list
Supplied ==
    IF call.parse_function[1] = "callable" THEN <<call.parse_function[2]>>
    ELSE call.parse_function[2]

C25_SingleParserAllGroups ==
    (/\ pc = "done" /\ RunsParsedQuery /\ call.parse_function # None
     /\ call.parse_function[1] = "callable" /\ Len(loc.groups) >= 2)
    => LET f == call.parse_function[2]
           all == [i \in 1..Len(loc.groups) |-> ParseFun(f, loc.groups[i])]
       IN  IF \E i \in 1..Len(all) : all[i] \in {ValueError, KeyError}
           THEN ret.kind = "raise"
           ELSE /\ ret.kind = "return"
                /\ ret.val.shape = "list"
                /\ ret.val.v = all

\* C26: a supplied parser list whose length differs from the number of groups
\* the pattern captured makes parsed_query fail; no result leaves out a group
\* or a parser.
C26_LengthMismatchRejected ==
    (/\ pc = "done" /\ RunsParsedQuery /\ call.parse_function # None
     /\ loc.reply # None
     /\ Search(ToRegex(loc.response_regex), loc.reply).found
     /\ Len(Supplied) # Len(loc.groups))
    => ret.kind = "raise"

\* a template without placeholders and without groups
Literal(t) == TemplateKinds(t) = <<>> /\ \A i \in 1..Len(t) : t[i] # "("

\* C27: a template without placeholders and without groups succeeds only on
\* a reply equal to it, a reply that merely contains it is a mismatch, and on
\* success no parser is applied and the result holds no value.
C27_LiteralFullMatch ==
    (/\ pc = "done" /\ RunsParsedQuery /\ call.parse_function = None
     /\ loc.reply # None /\ Literal(call.template))
    => /\ ret.kind = "return" <=> loc.reply = call.template
       /\ ret.kind = "return" =>
             (loc.parse_function = <<>>
                /\ ret.val = [shape |-> "list", v |-> <<>>])

\* the transport of the call in progress will deliver a line that ends a
\* multi-line read: a device's buffer runs empty and readline then returns the
\* empty line, the echo returns the last message written for ever
WillEndRead ==
    IF call.inst = "echo" THEN EndsRead(loc.termination_line, last_write)
    ELSE TRUE

\* C28: a multi-line read whose transport comes to return a line that holds
\* the termination line, or an empty line, returns; a multi-line read returns
\* only after the transport has returned such a line, so that it never returns
\* on a transport that never does.
C28_MultilineTermination ==
    /\ (pc = "rm_loop" /\ WillEndRead) ~> (pc = "done")
    /\ [](pc = "done" /\ call.via = "query" /\ loc.multiline
            /\ ret.kind = "return"
          => \E k \in 1..Len(LinesRead) :
                EndsRead(loc.termination_line, LinesRead[k]))

\* the position in the log of thread t's operation o, 0 if it has not run
PosOf(t, o) ==
    LET at == {i \in 1..Len(log) : log[i].thread = t /\ log[i].op = o}
    IN  IF at = {} THEN 0 ELSE CHOOSE i \in at : TRUE

\* thread t has returned the answer to thread u's command, not to its own
CrossTalk(t, u) ==
    /\ threads[t].pc = "done"
    /\ threads[u].command # <<>>
    /\ threads[u].command # threads[t].command
    /\ threads[t].ret = Return(StripLine(AnswerTo(threads[u].command)))

\* the later of the two writes came before the read of the thread that wrote
\* first was complete
Overlapped(t, u) ==
    LET first == IF PosOf(t, "write") < PosOf(u, "write") THEN t ELSE u
        second == IF first = t THEN u ELSE t
    IN  /\ PosOf(t, "write") > 0 /\ PosOf(u, "write") > 0
        /\ \/ PosOf(first, "readline") = 0
           \/ PosOf(second, "write") < PosOf(first, "readline")

\* C29: query takes no lock: two threads that call it on one instrument can
\* interleave so that the second write comes before the first caller's read is
\* complete and a caller returns the answer to the other's command; a caller
\* gets the other's answer only in such an interleaving, and its own when the
\* other call began after its read.
C29_CrossTalkWhenOverlapped ==
    \A t, u \in Threads :
        t # u =>
          /\ CrossTalk(t, u) => Overlapped(t, u)
          /\ (threads[t].pc = "done"
                /\ (PosOf(u, "flush") = 0
                      \/ PosOf(t, "readline") < PosOf(u, "flush")))
             => threads[t].ret =
                    Return(StripLine(AnswerTo(threads[t].command)))

\* both threads have returned, each with the answer to the other's command
C29_Witness ==
    /\ CrossTalk(1, 2) /\ CrossTalk(2, 1)
    /\ Overlapped(1, 2)

\* an access through a descriptor is in progress or has ended
InAccess == call.op \in {"get", "set", "del", "chget", "chset"}

\* the instrument the access works on: the instance, or its parent for a
\* channel property read or written on a well-formed channel
AccessTarget ==
    IF call.op \in {"chget", "chset"} /\ HasChannelAttrs(call.obj)
    THEN ParentOf(call.obj) ELSE call.obj

\* C30: no read, write or delete through a descriptor changes a field of the
\* descriptor, and the transport operations of an access are all on the
\* instance accessed, or on its parent for a channel property: the input
\* buffer of no other instrument changes.
C30_DescriptorStateless ==
    /\ [][/\ descriptors' = descriptors
          /\ \A i \in Insts :
                inbuf'[i] # inbuf[i] => (InAccess /\ i = AccessTarget)]_vars
    /\ [](descriptors = Props \cup ChanProps)
    /\ [](InAccess =>
            \A k \in 1..Len(log) :
                log[k].op \in {"flush", "write", "readline"}
                => log[k].inst = AccessTarget)

\* a property has been written on the second instance while the device of the
\* first still holds the answer to an access made there
C30_Witness ==
    /\ pc = "done" /\ call.op = "set" /\ call.obj = "other"
    /\ ret.kind = "return"
    /\ log # <<>> /\ log[Len(log)] = LogEntry("other", "write", loc.message, <<>>)
    /\ inbuf["parent"] # <<>>
    /\ descriptors = Props \cup ChanProps

\* the operations of the log that sent the command of the call to the device
Sends ==
    {k \in 1..Len(log) :
        /\ log[k].op \in {"write", "instr.query"}
        /\ log[k].arg = call.command
        /\ log[k].res # Raised}

\* C31: a call of MessageBusInstrument.query or of VisaInstrument.query that
\* returns has sent its command to the device exactly once.
C31_CommandSentOnce ==
    (pc = "done" /\ call.via \in {"query", "visa_query"} /\ ret.kind = "return")
    => Cardinality(Sends) = 1

\* C33: the timeout given to query is the timeout of every readline call the
\* query makes, on the single-line path and on the multi-line path.
C33_TimeoutPassedOn ==
    (RunsQuery /\ call.via = "query")
    => \A k \in 1..Len(log) :
          log[k].op = "readline" => log[k].arg = call.timeout

\* C34: after the flush step of a query nothing is waiting to be read, so
\* that what the query reads was delivered after its write.
C34_FlushEmptiesInput ==
    [][(pc = "q_flush" /\ pc' = "q_write") => inbuf'[call.inst] = <<>>]_vars

\* C39: a query with multiline true, no termination_line argument and no
\* termination line on the instrument fails by assertion, after one flush and
\* one write of the command and without a readline call.
C39_NoTerminationLineAsserts ==
    (/\ call.via = "query" /\ call.multiline
     /\ call.termination_line = None /\ termination_line = None)
    => /\ \A k \in 1..Len(log) : log[k].op # "readline"
       /\ pc \notin {"q_readline", "rm_loop"}
       /\ pc = "done" =>
             /\ ret.kind = "raise"
             /\ Len(log) = 2
             /\ log[1] = LogEntry(call.inst, "flush", <<>>, <<>>)
             /\ log[2].op = "write" /\ log[2].arg = call.command
             /\ log[2].res # Raised => ret.val = <<"AssertionError">>

\* the assertion failed after the command had been written
C39_Witness ==
    /\ pc = "done" /\ call.via = "query" /\ call.multiline
    /\ call.termination_line = None /\ termination_line = None
    /\ ret.kind = "raise" /\ ret.val = <<"AssertionError">>
    /\ Len(log) = 2 /\ log[2] = LogEntry(call.inst, "write", call.command, <<>>)

\* the number of capture groups of a regular expression
RECURSIVE GroupCount(_)
GroupCount(r) ==
    CASE r[1] \in {"eps", "cls", "ncls"} -> 0
      [] r[1] \in {"seq", "alt"} -> GroupCount(r[2]) + GroupCount(r[3])
      [] r[1] \in {"opt", "star"} -> GroupCount(r[2])
      [] r[1] = "grp" -> 1 + GroupCount(r[2])

\* C37: for a template without a group of the user's, the compiled regular
\* expression has one capture group for each placeholder of the template and
\* the computed parser list one entry for each, so that a match pairs every
\* group with a parser.
C37_GroupsMatchParsers ==
    (/\ pc # "idle" /\ RunsParsedQuery /\ call.parse_function = None
     /\ \A i \in 1..Len(call.template) : call.template[i] # "(")
    => LET n == Len(TemplateKinds(call.template))
       IN  /\ GroupCount(ToRegex(loc.response_regex)) = n
           /\ Len(loc.parse_function) = n
           /\ (pc = "pq_parse" \/ (pc = "done" /\ ret.kind = "return"))
                 => Len(loc.groups) = n

\* '%d %d' matched '12 12' with two groups for its two parsers
C37_Witness ==
    /\ pc = "pq_parse" /\ call.template = t_dd /\ call.parse_function = None
    /\ Len(loc.groups) = 2 /\ loc.parse_function = <<"d", "d">>

\* C38: an access to a property on the class, with no instance, returns the
\* descriptor itself, for a queried_property and for a
\* queried_channel_property, raises nothing and performs no transport
\* operation.
C38_ClassAccessReturnsDescriptor ==
    (pc = "done" /\ call.op = "classget")
    => /\ log = <<>>
       /\ ret.kind = "return"
       /\ ret.val = call.prop

\* C32: make_data(make_dict(data)) holds every label of data and no other
\* label, for every list of slash-separated labels, lists in which one label
\* is a prefix path of another included, and the test of it passes.
C32_LabelsPreserved ==
    (pc \in {"db_assert", "done"})
    => /\ \A i \in 1..Len(call.data) : call.data[i] \in Elements(loc.data2)
       /\ \A i \in 1..Len(loc.data2) : loc.data2[i] \in Elements(call.data)
       /\ pc = "done" => ret.kind = "return"

\* C35: get_instance on a class returns one of the live instances of the
\* class and creates none when there is one; when there is none it creates
\* and returns a new instance of the class if create is true, else raises
\* IndexError if exceptions is true, else returns None; what it returns is
\* always an instance of the class.
C35_GetInstance ==
    [][(pc = "idle" /\ pc' = "done")
       => LET cls == call'.cls
              existing == {i \in instances : IsInstance(ClassOf(i), cls)}
          IN  /\ IF existing # {}
                 THEN /\ ret'.kind = "return" /\ ret'.val \in existing
                      /\ instances' = instances
                 ELSE IF call'.create
                 THEN /\ ret'.kind = "return" /\ ret'.val \notin instances
                      /\ instances' = instances \cup {ret'.val}
                      /\ ret'.val # None /\ ClassOf(ret'.val) = cls
                 ELSE /\ instances' = instances
                      /\ IF call'.exceptions
                         THEN ret'.kind = "raise" /\ ret'.val = <<"IndexError">>
                         ELSE ret' = Return(None)
              /\ (ret'.kind = "return" /\ (existing # {} \/ call'.create))
                    => (ret'.val \in instances'
                          /\ IsInstance(ClassOf(ret'.val), cls))]_vars

\* Stage.get_instance() returned the live DummyStage while an EchoInstrument
\* was alive too, and created nothing
C35_Witness ==
    /\ pc = "done" /\ call.cls = "Stage" /\ call.create
    /\ ret.kind = "return" /\ ret.val \in instances
    /\ ClassOf(ret.val) = "DummyStage"
    /\ \E i \in instances : ClassOf(i) = "EchoInstrument"
    /\ Cardinality(instances) = 2

\* C36: on a DummyStage move(p, relative=True) and move_rel(p) take the
\* position to the old position plus p, move(p, relative=False) sets the
\* position to p, and get_position returns the position and leaves it alone.
C36_MovesAsDocumented ==
    [][(pc = "idle" /\ pc' = "done")
       => IF call'.op = "move_rel"
          THEN position' = Add(position, call'.position)
          ELSE IF call'.op = "move"
          THEN position' = IF call'.relative
                           THEN Add(position, call'.position)
                           ELSE call'.position
          ELSE ret' = Return(position) /\ position' = position]_vars

====
